---- MODULE Spec2Model ----
(***************************************************************************)
(* Optimistic roll-in: the off-chain engine (class OptimisticRollIn) and   *)
(* the arbiter contract (Optimistic_Roll_In) it talks to.                  *)
(*                                                                         *)
(* Encodings.                                                              *)
(*  - A 32-byte word (a state, a time) is a small natural number; Keccak   *)
(*    of a packed sequence of words is the tuple of those words (a         *)
(*    collision-free hash); bytes32(0) is the empty tuple.                 *)
(*  - A Merkle root over a list of elements is that list (collision-free); *)
(*    the root of the empty tree is bytes32(0).                            *)
(*  - An address on chain is a user id; in JS it is a string, a pair       *)
(*    <<id, casing>>, "cs" for the checksummed mixed-case form and "lc"    *)
(*    for the lower-case form.                                             *)
(*  - JS null in a numeric field is Null (-1); in arithmetic and           *)
(*    comparisons it coerces to 0 as in JS.  A missing key of a JS object  *)
(*    reads as Undefined (-2); other values of _frauds are references,     *)
(*    positions in `fraudsters`.                                           *)
(***************************************************************************)
EXTENDS Integers, Sequences, FiniteSets, TLC

\* ------------------------------------------------------------------ bounds
MaxTime == 3
MaxTxs == 2
MaxTree == 3
MaxQueue == 3
MaxFraudsters == 1
NumStates == 3
NumArgs == 1
MaxCost == 2

\* ------------------------------------------------------- program constants
\* amounts are in units of half an ether
min_bond == 2
ONE_ETHER == 2
MIN_DEPOSIT == 1
lock_time == 1
DEFAULT_GAS == 1

Users == {"s", "a"}
Observers == {"a"}
States == 0 .. (NumStates - 1)
Args == 1 .. NumArgs
Null == -1
Undefined == -2

ZERO_ADDRESS == "0x0"
ZERO_BYTES_32 == <<>>

UserNum(u) == IF u = "s" THEN 0 ELSE 1

\* ------------------------------------------------------------ utils (JS)
Checksum(id) == <<id, "cs">>
toLowerCase(addr) == <<addr[1], "lc">>
compareHex(a, b) == toLowerCase(a) = toLowerCase(b)
AddrStrings == {Checksum(u) : u \in Users} \cup {toLowerCase(Checksum(u)) : u \in Users}

\* Number coercion of a possibly-null numeric field
ToNumber(x) == IF x = Null THEN 0 ELSE x

hashPacked(root, st, time) == <<root, st, time>>

\* ------------------------------------------------------- logic contract
initialize_state(user) == UserNum(user) % NumStates
some_pure_transition(user, current_state, some_arg) ==
  (current_state + some_arg + UserNum(user)) % NumStates
blockhash(time) == time % NumStates
some_impure_transition(user, current_state, some_arg, time) ==
  (current_state + UserNum(user) + some_arg + blockhash(time) + 1) % NumStates

SIG_PURE == "0xef6f6a42"
SIG_IMPURE == "0x816ef0b6"

\* Result of calling the logic contract with a calldata blob
LogicCall(blob, time) ==
  IF blob.sighash = SIG_PURE
  THEN some_pure_transition(blob.user, blob.current_state, blob.some_arg)
  ELSE some_impure_transition(blob.user, blob.current_state, blob.some_arg, time)

\* ------------------------------------------------------- calldata codec
\* ABI encoding: 4 bytes of sighash, then user, current_state, arg as words.
getCalldata(user, currentState, functionName, arg) ==
  [sighash |-> functionName, user |-> user[1], current_state |-> currentState, some_arg |-> arg]

\* logic decoder: the address comes back as a checksummed string
decodeFn(blob) ==
  [sighash |-> blob.sighash, user |-> Checksum(blob.user),
   current_state |-> blob.current_state, some_arg |-> blob.some_arg]

\* a slice one word too far: the argument word
slice_36_68_nextWord(blob) == blob.some_arg

\* bytes 36..68 of a calldata blob: the current_state word
slice_36_68(blob) == blob.current_state

\* ------------------------------------------------- Merkle capability
NullTree == [kind |-> "null"]
Undef == [undefined |-> TRUE]
MerkleTree(elems) == [kind |-> "full", base |-> <<>>, elements |-> elems]
TreeRoot(tree) == tree.base \o SelectSeq(tree.elements, LAMBDA e : e # Undef)

\* compact append proof of `tree`: element count and the decommitments that
\* determine the root of the tree being appended to
appendProof(tree) ==
  [root |-> TreeRoot(tree),
   compactProof |-> [elementCount |-> Len(tree.elements), decommitments |-> TreeRoot(tree)]]

appendMulti(tree, blobs) ==
  [proof |-> appendProof(tree),
   newMerkleTree |-> [tree EXCEPT !.elements = tree.elements \o blobs]]
appendSingle(tree, blob) == appendMulti(tree, <<blob>>)

\* PartialMerkleTree.append: one element or an array of elements
append(tree, blobs) == [tree EXCEPT !.elements = tree.elements \o blobs]

fromAppendProof(appendElements, compactProof) ==
  [kind |-> "partial",
   base |-> compactProof.decommitments,
   elements |-> [i \in 1 .. compactProof.elementCount |-> Undef] \o appendElements]

\* contract library: new root after appending, or "revert" on a bad proof
try_append_many(call_data_root, call_data, proof) ==
  IF proof.decommitments = call_data_root /\ proof.elementCount = Len(call_data_root)
  THEN [ok |-> TRUE, root |-> call_data_root \o call_data]
  ELSE [ok |-> FALSE, root |-> <<>>]

\* multi proof for 0-based indices.  An index that is no position of the tree
\* (null, out of range) or whose element the partial tree does not hold yields
\* an undefined element; a library that throws instead ends the caller at the
\* same point, before anything is sent.
generateMultiProof(tree, indices) ==
  LET good(i) == i # Null /\ i >= 0 /\ i < Len(tree.elements)
  IN IF tree = NullTree THEN [ok |-> FALSE]
     ELSE [ok |-> TRUE, root |-> TreeRoot(tree),
           elements |-> [k \in 1 .. Len(indices) |->
                           IF good(indices[k]) THEN tree.elements[indices[k] + 1] ELSE Undef],
           compactProof |-> [elementCount |-> Len(tree.elements), indices |-> indices,
                             decommitments |-> TreeRoot(tree)]]

\* contract library: the elements sit at the proof's indices of the tree with this root
elements_exist(call_data_root, call_data, proof) ==
  /\ proof.decommitments = call_data_root
  /\ proof.elementCount = Len(call_data_root)
  /\ Len(proof.indices) = Len(call_data)
  /\ \A k \in 1 .. Len(call_data) :
       /\ proof.indices[k] >= 0
       /\ proof.indices[k] < Len(call_data_root)
       /\ call_data_root[proof.indices[k] + 1] = call_data[k]
get_indices(call_data, proof) == proof.indices

generateSizeProof(tree) ==
  [root |-> TreeRoot(tree), elementCount |-> Len(tree.elements), elementRoot |-> TreeRoot(tree)]
verify_size(call_data_root, current_size, current_size_proof) ==
  current_size_proof = call_data_root /\ current_size = Len(call_data_root)

\* ------------------------------------------------------------ variables
VARIABLES
  account_states, balances, lockers, locked_times, rollback_sizes,  \* arbiter storage
  arbiter_eth,  \* address(this).balance of the arbiter
  now,          \* block.timestamp of the block being mined
  txs,          \* mined perform transactions of the arbiter (decoded input, logs)
  state,        \* this._state of each operator handle
  queue,        \* this._queue of each operator handle
  frauds,       \* this._frauds of each observer: address string -> fraudster ref
  fraudsters,   \* fraudster handles created by fraudsterFromProof
  last          \* outcome of the last operation

chainVars == <<account_states, balances, arbiter_eth, lockers, locked_times, rollback_sizes, now, txs>>
localVars == <<state, queue, frauds, fraudsters>>
vars == <<account_states, balances, arbiter_eth, lockers, locked_times, rollback_sizes, now, txs,
          state, queue, frauds, fraudsters, last>>

\* ------------------------------------------------------------ getters
accountState(st) == hashPacked(TreeRoot(st.callDataTree), st.currentState, ToNumber(st.lastTime))
isInOptimisticState(st) == st.lastTime # 0
transitionCount(st) == Len(st.callDataTree.elements)
queuedState(u) ==
  IF Len(queue[u]) > 0 THEN queue[u][Len(queue[u])].newState ELSE state[u].currentState

\* a handle that forgets to refresh its last optimistic time
updateStateOptimistically_staleTime(st, newMerkleTree, newState, lastTime) ==
  [st EXCEPT !.callDataTree = newMerkleTree, !.currentState = newState]

\* an optimistic update that keeps the old calldata tree
updateStateOptimistically_keepTree(st, newMerkleTree, newState, lastTime) ==
  [st EXCEPT !.currentState = newState, !.lastTime = lastTime]

\* _updateStateOptimistically
updateStateOptimistically(st, newMerkleTree, newState, lastTime) ==
  [st EXCEPT !.callDataTree = newMerkleTree, !.currentState = newState, !.lastTime = lastTime]

\* a pessimistic update that forgets to drop the calldata tree
updateStatePessimistically_keepTree(st, newState) ==
  [st EXCEPT !.callDataTree = IF @ = NullTree THEN MerkleTree(<<>>) ELSE @,
             !.currentState = newState, !.lastTime = 0]

\* _updateStatePessimistically
updateStatePessimistically(st, newState) ==
  [st EXCEPT !.callDataTree = MerkleTree(<<>>), !.currentState = newState, !.lastTime = 0]

\* ------------------------------------------------------------ arbiter
not_locked(user) == lockers[user] = ZERO_ADDRESS
no_rollback_required(user) == rollback_sizes[user] = 0
can_exit_optimism(last_time) == last_time + lock_time < now
lock_expired(user) == locked_times[user] + lock_time <= now

\* apply_bond: the new balance, or a revert
apply_bond(user, amount) ==
  IF amount = 0 THEN [ok |-> balances[user] >= min_bond, balance |-> balances[user]]
  ELSE IF amount >= ONE_ETHER THEN [ok |-> TRUE, balance |-> balances[user] + amount]
  ELSE [ok |-> balances[user] + amount >= min_bond, balance |-> balances[user] + amount]

verify_transition(user, call_data, new_state) ==
  /\ user = call_data.user
  /\ LogicCall(call_data, now) = new_state

Mined(tx) == txs' = Append(txs, tx)

Init ==
  /\ account_states = [u \in Users |-> ZERO_BYTES_32]
  /\ balances = [u \in Users |-> 0]
  /\ arbiter_eth = 0
  /\ lockers = [u \in Users |-> ZERO_ADDRESS]
  /\ locked_times = [u \in Users |-> 0]
  /\ rollback_sizes = [u \in Users |-> 0]
  /\ now = 1
  /\ txs = <<>>
  /\ state = [u \in Users |->
       [user |-> Checksum(u), callDataTree |-> NullTree, currentState |-> Null,
        lastTime |-> Null, fraudIndex |-> Null]]
  /\ queue = [u \in Users |-> <<>>]
  /\ frauds = [o \in Observers |-> [k \in AddrStrings |-> Undefined]]
  /\ fraudsters = <<>>
  /\ last = [op |-> "new", who |-> "", ok |-> TRUE, sent |-> FALSE]

\* a failing call that has already emptied the queue
FailWith_queueCleared(opName, who, wasSent, info) ==
  /\ last' = [op |-> opName, who |-> who, ok |-> FALSE, sent |-> wasSent] @@ info
  /\ queue' = [u \in Users |-> <<>>]
  /\ UNCHANGED <<chainVars, state, frauds, fraudsters>>

FailWith(opName, who, wasSent, info) ==
  /\ last' = [op |-> opName, who |-> who, ok |-> FALSE, sent |-> wasSent] @@ info
  /\ UNCHANGED <<chainVars, localVars>>

Fail(opName, who, wasSent) == FailWith(opName, who, wasSent, <<>>)

Tick ==
  /\ now < MaxTime
  /\ now' = now + 1
  /\ last' = [op |-> "tick", who |-> "", ok |-> TRUE, sent |-> FALSE]
  /\ UNCHANGED <<account_states, balances, arbiter_eth, lockers, locked_times, rollback_sizes, txs, localVars>>

\* -------------------------------------------------- own-account operations
requiredBond == 2

SIG_HASHES ==
  [PerformManyOptimisticallyAndEnter |-> "0x08542bb1", PerformManyOptimistically |-> "0x6a8dddef",
   PerformOptimisticallyAndEnter |-> "0x177f15c5", PerformOptimistically |-> "0x1646d051"]
TOPICS ==
  [ORI_New_Optimistic_State |-> "0x4779c4b0", ORI_New_Optimistic_States |-> "0x0b87b136",
   ORI_New_State |-> "0x0f5025cc", ORI_Fraud_Proven |-> "0xa66290bc", ORI_Locked |-> "0x8773bde6",
   ORI_Unlocked |-> "0x52451234", ORI_Rolled_Back |-> "0x4d7ed8c4"]

Done(opName, who) == [op |-> opName, who |-> who, ok |-> TRUE, sent |-> TRUE]

\* value to send so that the balance of `user` reaches the required bond
AmountRequired(user) ==
  IF requiredBond - balances[user] > 0 THEN requiredBond - balances[user] ELSE 0

\* bond(): bonds what is missing for the handle's own user
Bond(u) ==
  LET amountRequired == requiredBond - balances[u]
      bonded == apply_bond(u, amountRequired)
  IN IF amountRequired <= 0 THEN Fail("bond", u, FALSE)
     ELSE IF ~bonded.ok THEN Fail("bond", u, TRUE)
     ELSE /\ balances' = [balances EXCEPT ![u] = bonded.balance]
          /\ arbiter_eth' = arbiter_eth + amountRequired
          /\ last' = Done("bond", u)
          /\ UNCHANGED <<account_states, lockers, locked_times, rollback_sizes, now, txs, localVars>>

\* initialize(options): arbiter initialize, then _updateStatePessimistically
Initialize(u, deposit) ==
  LET st == state[u]
      additionalBond == AmountRequired(u)
      value == deposit + additionalBond
      bonded == apply_bond(u, additionalBond)
      initial_state == initialize_state(u)
      accepted == /\ account_states[u] = ZERO_BYTES_32
                  /\ additionalBond <= value
                  /\ bonded.ok
                  /\ deposit >= MIN_DEPOSIT
  IN IF account_states[u] # ZERO_BYTES_32 THEN Fail("initialize", u, FALSE)
     ELSE IF ~accepted THEN Fail("initialize", u, TRUE)
     ELSE /\ account_states' = [account_states EXCEPT ![u] = hashPacked(ZERO_BYTES_32, initial_state, 0)]
          /\ balances' = [balances EXCEPT ![u] = bonded.balance]
          /\ arbiter_eth' = arbiter_eth + value - (value - additionalBond)
          /\ txs' = txs
          /\ IF Checksum(u) = st.user
             THEN /\ state' = [state EXCEPT ![u] = updateStatePessimistically(st, initial_state)]
                  /\ last' = Done("initialize", u)
             ELSE /\ state' = state
                  /\ last' = [op |-> "initialize", who |-> u, ok |-> FALSE, sent |-> TRUE, mined |-> TRUE]
          /\ UNCHANGED <<lockers, locked_times, rollback_sizes, now, queue, frauds, fraudsters>>

\* arbiter normal_perform: the guard, for caller u
normal_perform_ok(u, call_data, call_data_root, last_time) ==
  /\ not_locked(u)
  /\ u = call_data.user
  /\ hashPacked(call_data_root, call_data.current_state, last_time) = account_states[u]

\* <fn>.normal(args): _pessimisticCall
Normal(u, functionName, arg) ==
  LET st == state[u]
      exiting == isInOptimisticState(st)
      callData == getCalldata(st.user, st.currentState, functionName, arg)
      root == IF exiting THEN TreeRoot(st.callDataTree) ELSE ZERO_BYTES_32
      last_time == IF exiting THEN st.lastTime ELSE 0
      accepted == /\ exiting => (no_rollback_required(u) /\ can_exit_optimism(last_time))
                  /\ normal_perform_ok(u, callData, root, last_time)
      new_state == LogicCall(callData, now)
  IN IF exiting /\ ~(now >= ToNumber(st.lastTime) + lock_time) THEN Fail("normal", u, FALSE)
     ELSE IF st.currentState = Null THEN Fail("normal", u, FALSE)
     ELSE IF ~accepted THEN Fail("normal", u, TRUE)
     ELSE /\ Len(txs) < MaxTxs
          /\ account_states' = [account_states EXCEPT ![u] = hashPacked(ZERO_BYTES_32, new_state, 0)]
          /\ Mined([sighash |-> IF exiting THEN "perform_and_exit" ELSE "perform", from |-> u,
                    logs |-> <<[topic0 |-> TOPICS.ORI_New_State, topic1 |-> u, topic2 |-> new_state]>>])
          /\ state' = [state EXCEPT ![u] = updateStatePessimistically(st, new_state)]
          /\ last' = Done("normal", u) @@ [exiting |-> exiting]
          /\ UNCHANGED <<balances, arbiter_eth, lockers, locked_times, rollback_sizes, now, queue, frauds, fraudsters>>

\* arbiter optimistic_perform / optimistic_perform_many: the guard
optimistic_perform_ok(u, call_data, call_data_root, proof, last_time) ==
  /\ not_locked(u)
  /\ hashPacked(call_data_root, call_data[1].current_state, last_time) = account_states[u]
  /\ try_append_many(call_data_root, call_data, proof).ok

sufficient_calldata(call_data) == Len(call_data) > 1

\* an input that carries a prior root and last time in every variant
OptimisticInput_withPrior(entering, call_data, new_state, call_data_root, proof, last_time) ==
  [call_data |-> call_data, new_state |-> new_state, call_data_root |-> call_data_root,
   proof |-> proof, last_time |-> last_time]

\* decoded input of a perform_(many_)optimistically(_and_enter) transaction:
\* the entering variants carry no call_data_root and no last_time
OptimisticInput(entering, call_data, new_state, call_data_root, proof, last_time) ==
  IF entering
  THEN [call_data |-> call_data, new_state |-> new_state, proof |-> proof]
  ELSE [call_data |-> call_data, new_state |-> new_state, call_data_root |-> call_data_root,
        proof |-> proof, last_time |-> last_time]

\* the mined optimistic transaction: decoded input, log, and (ghost) the
\* account state and tree size the arbiter had for the user around it
OptimisticTx(u, sighash, input, topic, new_root, size_before) ==
  [sighash |-> sighash, from |-> u, input |-> input,
   logs |-> <<[topic0 |-> topic, topic1 |-> u, topic2 |-> now]>>,
   ghost |-> [account_state |-> hashPacked(new_root, input.new_state, now),
              size_before |-> size_before]]

\* <fn>.optimistic(args, newState): _optimisticCall
Optimistic(u, arg, newState) ==
  LET st == state[u]
      entering == ~isInOptimisticState(st)
      callData == getCalldata(st.user, st.currentState, SIG_PURE, arg)
      ap == appendSingle(st.callDataTree, callData)
      call_data_root == IF entering THEN ZERO_BYTES_32 ELSE ap.proof.root
      last_time == IF entering THEN 0 ELSE st.lastTime
      accepted == optimistic_perform_ok(u, <<callData>>, call_data_root, ap.proof.compactProof, last_time)
      new_root == try_append_many(call_data_root, <<callData>>, ap.proof.compactProof).root
  IN IF st.currentState = Null THEN Fail("optimistic", u, FALSE)
     ELSE IF ~accepted THEN Fail("optimistic", u, TRUE)
     ELSE /\ Len(txs) < MaxTxs
          /\ Len(st.callDataTree.elements) < MaxTree
          /\ account_states' = [account_states EXCEPT ![u] = hashPacked(new_root, newState, now)]
          /\ Mined(OptimisticTx(u, IF entering THEN SIG_HASHES.PerformOptimisticallyAndEnter
                                   ELSE SIG_HASHES.PerformOptimistically,
                                OptimisticInput(entering, callData, newState, call_data_root,
                                                ap.proof.compactProof, last_time),
                                TOPICS.ORI_New_Optimistic_State, new_root, Len(call_data_root)))
          /\ state' = [state EXCEPT ![u] = updateStateOptimistically(st, ap.newMerkleTree, newState, now)]
          /\ last' = Done("optimistic", u) @@ [entering |-> entering]
          /\ UNCHANGED <<balances, arbiter_eth, lockers, locked_times, rollback_sizes, now, queue, frauds, fraudsters>>

\* <fn>.queue(args, newState): _queueCall
Queue(u, arg, newState) ==
  /\ Len(queue[u]) < MaxQueue
  /\ queue' = [queue EXCEPT ![u] = Append(@, [functionName |-> SIG_PURE, args |-> arg, newState |-> newState])]
  /\ last' = [op |-> "queue", who |-> u, ok |-> TRUE, sent |-> FALSE]
  /\ UNCHANGED <<chainVars, state, frauds, fraudsters>>

clearQueue(u) ==
  /\ queue[u] # <<>>
  /\ queue' = [queue EXCEPT ![u] = <<>>]
  /\ last' = [op |-> "clearQueue", who |-> u, ok |-> TRUE, sent |-> FALSE]
  /\ UNCHANGED <<chainVars, state, frauds, fraudsters>>

\* a search that treats an estimate equal to the ceiling as too expensive
RECURSIVE binarySearch_strict(_, _, _, _)
binarySearch_strict(gasEstimator, searchValue, left, right) ==
  IF left < right
  THEN LET mid == (left + right) \div 2
           valueAtMid == gasEstimator[mid + 1]
       IN IF searchValue <= valueAtMid
          THEN binarySearch_strict(gasEstimator, searchValue, left, mid)
          ELSE binarySearch_strict(gasEstimator, searchValue, mid + 1, right)
  ELSE left - 1

\* a search that never selects less than one item
RECURSIVE binarySearch_atLeastOne(_, _, _, _)
binarySearch_atLeastOne(gasEstimator, searchValue, left, right) ==
  IF left < right
  THEN LET mid == (left + right) \div 2
           valueAtMid == gasEstimator[mid + 1]
       IN IF searchValue < valueAtMid
          THEN binarySearch_atLeastOne(gasEstimator, searchValue, left, mid)
          ELSE binarySearch_atLeastOne(gasEstimator, searchValue, mid + 1, right)
  ELSE IF left = 0 THEN 0 ELSE left - 1

\* binarySearchGasCost: gasEstimator[k] is the estimate for the prefix of k items
RECURSIVE binarySearch(_, _, _, _)
binarySearch(gasEstimator, searchValue, left, right) ==
  IF left < right
  THEN LET mid == (left + right) \div 2
           valueAtMid == gasEstimator[mid + 1]
       IN IF searchValue < valueAtMid
          THEN binarySearch(gasEstimator, searchValue, left, mid)
          ELSE binarySearch(gasEstimator, searchValue, mid + 1, right)
  ELSE left - 1

binarySearchGasCost(callDataArray, gasEstimator, searchValue) ==
  binarySearch(gasEstimator, searchValue, 0, Len(callDataArray))

\* a batch every blob of which embeds the handle's current state
batchCallData_fromCurrent(u) ==
  [i \in 1 .. Len(queue[u]) |->
     getCalldata(state[u].user, state[u].currentState, queue[u][i].functionName, queue[u][i].args)]

\* _prepareBatchCalldata: the calldata of every queued item
batchCallData(u) ==
  [i \in 1 .. Len(queue[u]) |->
     getCalldata(state[u].user,
                 IF i = 1 THEN state[u].currentState ELSE queue[u][i - 1].newState,
                 queue[u][i].functionName, queue[u][i].args)]

\* a flush that empties the queue whatever was submitted
remainingQueue_cleared(q, index) == <<>>

\* _prepareBatchCalldata: queue.slice(index + 1, queue.length)
remainingQueue(q, index) == SubSeq(q, index + 2, Len(q))

\* sendQueue(options): _prepareBatchCalldata and _performBatchOptimistically(WhileEnteringOptimism)
SendQueue(u, estimator, gas) ==
  LET st == state[u]
      q == queue[u]
      entering == ~isInOptimisticState(st)
      callDataArray == batchCallData(u)
      index == binarySearchGasCost(callDataArray, estimator, gas)
      possibleCallDataArray == SubSeq(callDataArray, 1, index + 1)
      newState == q[index + 1].newState
      ap == appendMulti(st.callDataTree, possibleCallDataArray)
      call_data_root == IF entering THEN ZERO_BYTES_32 ELSE ap.proof.root
      last_time == IF entering THEN 0 ELSE st.lastTime
      accepted == /\ sufficient_calldata(possibleCallDataArray)
                  /\ optimistic_perform_ok(u, possibleCallDataArray, call_data_root,
                                           ap.proof.compactProof, last_time)
      new_root == try_append_many(call_data_root, possibleCallDataArray, ap.proof.compactProof).root
      info == [n |-> Len(q), estimator |-> estimator, gas |-> gas, index |-> index]
  IN IF ~(Len(q) > 1) \/ st.currentState = Null THEN Fail("sendQueue", u, FALSE)
     ELSE IF index < 0 THEN FailWith("sendQueue", u, FALSE, info)
     ELSE IF ~accepted THEN FailWith("sendQueue", u, TRUE, info)
     ELSE /\ Len(txs) < MaxTxs
          /\ Len(st.callDataTree.elements) + index + 1 <= MaxTree
          /\ account_states' = [account_states EXCEPT ![u] = hashPacked(new_root, newState, now)]
          /\ Mined(OptimisticTx(u, IF entering THEN SIG_HASHES.PerformManyOptimisticallyAndEnter
                                   ELSE SIG_HASHES.PerformManyOptimistically,
                                OptimisticInput(entering, possibleCallDataArray, newState,
                                                call_data_root, ap.proof.compactProof, last_time),
                                TOPICS.ORI_New_Optimistic_States, new_root, Len(call_data_root)))
          /\ state' = [state EXCEPT ![u] = updateStateOptimistically(st, ap.newMerkleTree, newState, now)]
          /\ queue' = [queue EXCEPT ![u] = remainingQueue(q, index)]
          /\ last' = Done("sendQueue", u) @@ info @@ [entering |-> entering]
          /\ UNCHANGED <<balances, arbiter_eth, lockers, locked_times, rollback_sizes, now, frauds, fraudsters>>

\* sendQueue(options) when the gas estimate of the first probed prefix is
\* rejected (estimateGas of a call the node refuses): the search awaits the
\* estimator, so its exception ends _prepareBatchCalldata before anything is sent
SendQueueEstimatorThrows(u) ==
  IF ~(Len(queue[u]) > 1) \/ state[u].currentState = Null THEN Fail("sendQueue", u, FALSE)
  ELSE FailWith("sendQueue", u, FALSE, [n |-> Len(queue[u]), thrown |-> "estimator"])

\* ------------------------------------------------------ observer side
\* how a transition gets evaluated: by a registered pure verifier, by an
\* eth_call to the node, or with an error (the call rejects, the verifier throws)
Modes == {"pure", "node", "error"}
pureVerifiers == {SIG_PURE}

HasOriLog(tx) ==
  tx.logs[1].topic0 \in {TOPICS.ORI_New_Optimistic_State, TOPICS.ORI_New_Optimistic_States}
IsBatch(tx) ==
  tx.sighash \in {SIG_HASHES.PerformManyOptimisticallyAndEnter, SIG_HASHES.PerformManyOptimistically}
IsSingle(tx) ==
  tx.sighash \in {SIG_HASHES.PerformOptimisticallyAndEnter, SIG_HASHES.PerformOptimistically}

\* prefix(oriLog.topics[1].slice(26)): the lower-case hex of the logged user
suspectOf(tx) == <<tx.logs[1].topic1, "lc">>
lastTimeOf(tx) == tx.logs[1].topic2

\* the logic decoder is built from the logic contract's interface: decodeFn
\* decodes calldata of its two functions and throws on anything else
SIG_UNKNOWN == "0x00000000"
Decodable(callDataHex) == callDataHex.sighash \in {SIG_PURE, SIG_IMPURE}

\* a verifier that skips the comparison of the embedded user with the suspect
isValidTransition_anyUser(suspectHex, callDataHex, newStateHex, mode) ==
  LET decodedCallData == decodeFn(callDataHex)
  IN IF mode = "error" THEN FALSE
     ELSE IF mode = "pure" /\ decodedCallData.sighash \in pureVerifiers
     THEN some_pure_transition(decodedCallData.user[1], decodedCallData.current_state,
                               decodedCallData.some_arg) = newStateHex
     ELSE LogicCall(callDataHex, now) = newStateHex

\* a verifier that checks the user but forgets to compare the computed state
isValidTransition_trusting(suspectHex, callDataHex, newStateHex, mode) ==
  compareHex(suspectHex, decodeFn(callDataHex).user) /\ mode # "error"

\* _isValidTransition
isValidTransition(suspectHex, callDataHex, newStateHex, mode) ==
  LET decodedCallData == decodeFn(callDataHex)
  IN IF ~compareHex(suspectHex, decodedCallData.user) THEN FALSE
     ELSE IF mode = "error" THEN FALSE
     ELSE IF mode = "pure" /\ decodedCallData.sighash \in pureVerifiers
     THEN some_pure_transition(decodedCallData.user[1], decodedCallData.current_state,
                               decodedCallData.some_arg) = newStateHex
     ELSE LogicCall(callDataHex, now) = newStateHex

\* a batch verifier that checks every blob against the final declared state
intermediateState_finalOnly(callDataArrayHex, newStateHex, i) == newStateHex

\* the state blob i (1-based) of a batch is checked against
intermediateState(callDataArrayHex, newStateHex, i) ==
  IF i = Len(callDataArrayHex) THEN newStateHex
  ELSE decodeFn(callDataArrayHex[i + 1]).current_state

\* _verifyBatchTransitions: the loop from position i (1-based) on; the 0-based
\* index of the first transition found invalid, or Null when none is
RECURSIVE verifyBatchFrom(_, _, _, _, _)
verifyBatchFrom(suspectHex, callDataArrayHex, newStateHex, mode, i) ==
  IF i > Len(callDataArrayHex) THEN Null
  ELSE IF isValidTransition(suspectHex, callDataArrayHex[i],
                            intermediateState(callDataArrayHex, newStateHex, i), mode)
       THEN verifyBatchFrom(suspectHex, callDataArrayHex, newStateHex, mode, i + 1)
       ELSE i - 1

\* the same loop reaches a decodeFn that throws: of the next blob when the
\* intermediate state is read, or of the blob itself in _isValidTransition,
\* both outside any try block
RECURSIVE verifyBatchThrowsFrom(_, _, _, _, _)
verifyBatchThrowsFrom(suspectHex, callDataArrayHex, newStateHex, mode, i) ==
  IF i > Len(callDataArrayHex) THEN FALSE
  ELSE IF i < Len(callDataArrayHex) /\ ~Decodable(callDataArrayHex[i + 1]) THEN TRUE
  ELSE IF ~Decodable(callDataArrayHex[i]) THEN TRUE
  ELSE IF isValidTransition(suspectHex, callDataArrayHex[i],
                            intermediateState(callDataArrayHex, newStateHex, i), mode)
       THEN verifyBatchThrowsFrom(suspectHex, callDataArrayHex, newStateHex, mode, i + 1)
       ELSE FALSE

\* verification of the transaction ends with an exception of the decoder
verifyThrows(tx, suspectHex, mode) ==
  IF IsBatch(tx) THEN verifyBatchThrowsFrom(suspectHex, tx.input.call_data, tx.input.new_state, mode, 1)
  ELSE ~Decodable(tx.input.call_data)

verifyBatchTransitions(suspectHex, decodedOptimismData, mode) ==
  LET i == verifyBatchFrom(suspectHex, decodedOptimismData.call_data,
                           decodedOptimismData.new_state, mode, 1)
  IN [valid |-> i = Null, fraudIndex |-> i, callDataArrayHex |-> decodedOptimismData.call_data]

\* _verifyTransition
verifyTransition(suspectHex, decodedOptimismData, mode) ==
  IF isValidTransition(suspectHex, decodedOptimismData.call_data, decodedOptimismData.new_state, mode)
  THEN [valid |-> TRUE, fraudIndex |-> Null, callDataArrayHex |-> <<decodedOptimismData.call_data>>]
  ELSE [valid |-> FALSE, fraudIndex |-> 0, callDataArrayHex |-> <<decodedOptimismData.call_data>>]

\* a handle left at the state the fraudulent transaction started from
fraudsterFromProof_priorState(suspect, fraudIndex, callDataArrayHex, newStateHex, proofHex, lastTime, parentORI) ==
  LET callDataPartialTree == fromAppendProof(callDataArrayHex, proofHex)
  IN [user |-> suspect,
      callDataTree |-> callDataPartialTree,
      currentState |-> decodeFn(callDataArrayHex[1]).current_state,
      lastTime |-> lastTime,
      fraudIndex |-> Len(callDataPartialTree.elements) - Len(callDataArrayHex) + fraudIndex,
      parentORI |-> parentORI,
      sourceAddress |-> Checksum(parentORI)]

\* a handle that keeps the index local to the transaction
fraudsterFromProof_localIndex(suspect, fraudIndex, callDataArrayHex, newStateHex, proofHex, lastTime, parentORI) ==
  LET callDataPartialTree == fromAppendProof(callDataArrayHex, proofHex)
  IN [user |-> suspect,
      callDataTree |-> callDataPartialTree,
      currentState |-> newStateHex,
      lastTime |-> lastTime,
      fraudIndex |-> fraudIndex,
      parentORI |-> parentORI,
      sourceAddress |-> Checksum(parentORI)]

\* a handle whose fraud index counts the tree's elements from 1
fraudsterFromProof_countFromOne(suspect, fraudIndex, callDataArrayHex, newStateHex, proofHex, lastTime, parentORI) ==
  LET callDataPartialTree == fromAppendProof(callDataArrayHex, proofHex)
  IN [user |-> suspect,
      callDataTree |-> callDataPartialTree,
      currentState |-> newStateHex,
      lastTime |-> lastTime,
      fraudIndex |-> Len(callDataPartialTree.elements) - Len(callDataArrayHex) + fraudIndex + 1,
      parentORI |-> parentORI,
      sourceAddress |-> Checksum(parentORI)]

\* static fraudsterFromProof: the handle of the suspect, owned by `parentORI`
fraudsterFromProof(suspect, fraudIndex, callDataArrayHex, newStateHex, proofHex, lastTime, parentORI) ==
  LET callDataPartialTree == fromAppendProof(callDataArrayHex, proofHex)
  IN [user |-> suspect,
      callDataTree |-> callDataPartialTree,
      currentState |-> newStateHex,
      lastTime |-> lastTime,
      fraudIndex |-> Len(callDataPartialTree.elements) - Len(callDataArrayHex) + fraudIndex,
      parentORI |-> parentORI,
      sourceAddress |-> Checksum(parentORI)]

getFraudster(o, user) == frauds[o][toLowerCase(user)]

\* verifyTransaction(txId, options) on the handle of observer o; a fraud found
\* is recorded by _recordFraud
verifyTransactionUpTo(o, t, mode, maxHandles) ==
  LET tx == txs[t]
      suspectHex == suspectOf(tx)
      lastTime == lastTimeOf(tx)
      result == IF IsBatch(tx) THEN verifyBatchTransitions(suspectHex, tx.input, mode)
                ELSE verifyTransition(suspectHex, tx.input, mode)
      info == [tx |-> t, mode |-> mode, valid |-> result.valid, user |-> suspectHex]
  IN IF ~HasOriLog(tx) THEN FailWith("verifyTransaction", o, FALSE, [tx |-> t])
     ELSE IF verifyThrows(tx, suspectHex, mode)
     THEN FailWith("verifyTransaction", o, FALSE, [tx |-> t, mode |-> mode, user |-> suspectHex])
     ELSE IF result.valid
     THEN /\ last' = [op |-> "verifyTransaction", who |-> o, ok |-> TRUE, sent |-> FALSE] @@ info
          /\ UNCHANGED <<chainVars, localVars>>
     ELSE /\ Len(fraudsters) < maxHandles
          /\ fraudsters' = Append(fraudsters,
               fraudsterFromProof(suspectHex, result.fraudIndex, result.callDataArrayHex,
                                  tx.input.new_state, tx.input.proof, lastTime, o))
          /\ frauds' = [frauds EXCEPT ![o][suspectHex] = Len(fraudsters) + 1]
          /\ last' = [op |-> "verifyTransaction", who |-> o, ok |-> TRUE, sent |-> FALSE] @@ info
                     @@ [localIndex |-> result.fraudIndex]
          /\ UNCHANGED <<chainVars, state, queue>>

\* verifyTransaction while at most MaxFraudsters fraudster handles exist
verifyTransaction(o, t, mode) == verifyTransactionUpTo(o, t, mode, MaxFraudsters)

\* an update that keeps the time the transaction was built on
updateWithTransitions_keepTime(st, decodedOptimismData, callDataArrayHex, lastTime) ==
  IF ~("last_time" \in DOMAIN decodedOptimismData) THEN [ok |-> FALSE, err |-> "TypeError"]
  ELSE IF decodedOptimismData.last_time # st.lastTime THEN [ok |-> FALSE, err |-> "Last time mismatch."]
  ELSE IF decodedOptimismData.call_data_root # TreeRoot(st.callDataTree)
       THEN [ok |-> FALSE, err |-> "Root mismatch."]
  ELSE IF decodeFn(callDataArrayHex[1]).current_state # st.currentState
       THEN [ok |-> FALSE, err |-> "State mismatch."]
  ELSE [ok |-> TRUE,
        st |-> updateStateOptimistically(st, append(st.callDataTree, callDataArrayHex),
                                         decodedOptimismData.new_state, decodedOptimismData.last_time)]

\* an update that does not compare the state the transaction starts from
updateWithTransitions_noStateCheck(st, decodedOptimismData, callDataArrayHex, lastTime) ==
  IF ~("last_time" \in DOMAIN decodedOptimismData) THEN [ok |-> FALSE, err |-> "TypeError"]
  ELSE IF decodedOptimismData.last_time # st.lastTime THEN [ok |-> FALSE, err |-> "Last time mismatch."]
  ELSE IF decodedOptimismData.call_data_root # TreeRoot(st.callDataTree)
       THEN [ok |-> FALSE, err |-> "Root mismatch."]
  ELSE [ok |-> TRUE,
        st |-> updateStateOptimistically(st, append(st.callDataTree, callDataArrayHex),
                                         decodedOptimismData.new_state, lastTime)]

\* an update that does not compare the root the transaction was built on
updateWithTransitions_noRootCheck(st, decodedOptimismData, callDataArrayHex, lastTime) ==
  IF ~("last_time" \in DOMAIN decodedOptimismData) THEN [ok |-> FALSE, err |-> "TypeError"]
  ELSE IF decodedOptimismData.last_time # st.lastTime THEN [ok |-> FALSE, err |-> "Last time mismatch."]
  ELSE IF decodeFn(callDataArrayHex[1]).current_state # st.currentState
       THEN [ok |-> FALSE, err |-> "State mismatch."]
  ELSE [ok |-> TRUE,
        st |-> updateStateOptimistically(st, append(st.callDataTree, callDataArrayHex),
                                         decodedOptimismData.new_state, lastTime)]

\* _updateWithTransition / _updateWithBatchTransitions on a handle state: the
\* new handle state, or a failed assertion (a missing last_time is a TypeError)
updateWithTransitions(st, decodedOptimismData, callDataArrayHex, lastTime) ==
  IF ~("last_time" \in DOMAIN decodedOptimismData) THEN [ok |-> FALSE, err |-> "TypeError"]
  ELSE IF decodedOptimismData.last_time # st.lastTime THEN [ok |-> FALSE, err |-> "Last time mismatch."]
  ELSE IF decodedOptimismData.call_data_root # TreeRoot(st.callDataTree)
       THEN [ok |-> FALSE, err |-> "Root mismatch."]
  ELSE IF decodeFn(callDataArrayHex[1]).current_state # st.currentState
       THEN [ok |-> FALSE, err |-> "State mismatch."]
  ELSE [ok |-> TRUE,
        st |-> updateStateOptimistically(st, append(st.callDataTree, callDataArrayHex),
                                         decodedOptimismData.new_state, lastTime)]

\* update(txId) on a handle state
updateResult(st, tx) ==
  IF ~HasOriLog(tx) THEN [ok |-> FALSE, err |-> "TypeError"]
  ELSE IF ~compareHex(suspectOf(tx), st.user) THEN [ok |-> FALSE, err |-> "User mismatch."]
  ELSE IF IsBatch(tx) THEN updateWithTransitions(st, tx.input, tx.input.call_data, lastTimeOf(tx))
  ELSE IF IsSingle(tx) THEN updateWithTransitions(st, tx.input, <<tx.input.call_data>>, lastTimeOf(tx))
  ELSE [ok |-> TRUE, st |-> st]

\* fraudster.update(txId) on fraudster handle f
update(f, t) ==
  LET r == updateResult(fraudsters[f], txs[t])
  IN IF ~r.ok THEN FailWith("update", fraudsters[f].parentORI, FALSE, [f |-> f, tx |-> t, err |-> r.err])
     ELSE /\ fraudsters' = [fraudsters EXCEPT ![f] = r.st]
          /\ last' = [op |-> "update", who |-> fraudsters[f].parentORI, ok |-> TRUE, sent |-> FALSE,
                     f |-> f, tx |-> t]
          /\ UNCHANGED <<chainVars, state, queue, frauds>>

\* a delete under the checksummed form of the address
deleteFraudster_checksummed(o, user) == [frauds EXCEPT ![o][Checksum(user[1])] = Null]

\* deleteFraudster(user)
\* a delete that empties the owner's whole map
deleteFraudster_all(o, user) == [frauds EXCEPT ![o] = [k \in AddrStrings |-> Null]]

deleteFraudster(o, user) == [frauds EXCEPT ![o][user] = Null]

\* the application calls deleteFraudster(user) on the handle of observer o
DeleteFraudster(o, user) ==
  /\ frauds' = deleteFraudster(o, user)
  /\ last' = [op |-> "deleteFraudster", who |-> o, ok |-> TRUE, sent |-> FALSE, user |-> user]
  /\ UNCHANGED <<chainVars, state, queue, fraudsters>>

\* arbiter lock_user, called by accuser with msg.value = value
lock_user_ok(accuser, suspect, value) ==
  /\ not_locked(accuser)
  /\ not_locked(suspect)
  /\ apply_bond(accuser, value).ok

\* fraudster.lock(): locks the suspect from the owner's source address
lock(f) ==
  LET st == fraudsters[f]
      suspect == st.user[1]
      from == st.sourceAddress[1]
      value == AmountRequired(from)
  IN IF lockers[suspect] # ZERO_ADDRESS THEN FailWith("lock", st.parentORI, FALSE, [f |-> f])
     ELSE IF ~lock_user_ok(from, suspect, value) THEN FailWith("lock", st.parentORI, TRUE, [f |-> f])
     ELSE /\ lockers' = [lockers EXCEPT ![suspect] = from, ![from] = from]
          /\ locked_times' = [locked_times EXCEPT ![suspect] = now, ![from] = now]
          /\ balances' = [balances EXCEPT ![from] = apply_bond(from, value).balance]
          /\ arbiter_eth' = arbiter_eth + value
          /\ last' = Done("lock", st.parentORI) @@ [f |-> f]
          /\ UNCHANGED <<account_states, rollback_sizes, now, txs, localVars>>

\* a toHex that lets any value through
toHex_lenient(value) == [ok |-> TRUE, hex |-> value]

\* toHex of an array: the hex form of every entry, "Invalid input type" thrown
\* for an entry that is no string, bigint or Buffer
toHex(value) ==
  IF \E k \in 1 .. Len(value) : value[k] = Undef THEN [ok |-> FALSE] ELSE [ok |-> TRUE, hex |-> value]

\* the indices proveFraud asks a multi proof for (null + 1 is 1)
proofIndices(st) == <<st.fraudIndex, ToNumber(st.fraudIndex) + 1>>

\* prove_fraud without the NOT_LOCKER requirement
prove_fraud_ok_anyAccuser(accuser, suspect, call_data, state_, call_data_root, proof, last_time) ==
  LET call_data_indices == get_indices(call_data, proof)
      transition_index == call_data_indices[1]
  IN /\ hashPacked(call_data_root, state_, last_time) = account_states[suspect]
     /\ elements_exist(call_data_root, call_data, proof)
     /\ IF Len(call_data) = 1
        THEN /\ transition_index + 1 = proof.elementCount
             /\ ~verify_transition(suspect, call_data[1], state_)
        ELSE /\ transition_index + 1 = call_data_indices[2]
             /\ ~verify_transition(suspect, call_data[1], slice_36_68(call_data[2]))

\* arbiter prove_fraud: the guard, and the state used for the fraudulent transition
prove_fraud_ok(accuser, suspect, call_data, state_, call_data_root, proof, last_time) ==
  LET call_data_indices == get_indices(call_data, proof)
      transition_index == call_data_indices[1]
  IN /\ lockers[suspect] = accuser
     /\ hashPacked(call_data_root, state_, last_time) = account_states[suspect]
     /\ elements_exist(call_data_root, call_data, proof)
     /\ IF Len(call_data) = 1
        THEN /\ transition_index + 1 = proof.elementCount
             /\ ~verify_transition(suspect, call_data[1], state_)
        ELSE /\ transition_index + 1 = call_data_indices[2]
             /\ ~verify_transition(suspect, call_data[1], slice_36_68(call_data[2]))

\* fraudster.proveFraud(): multi proof of the fraudulent transition and its
\* successor, arbiter prove_fraud, then the handle forgets the fraud
proveFraud(f) ==
  LET st == fraudsters[f]
      suspect == st.user[1]
      from == st.sourceAddress[1]
      mp == generateMultiProof(st.callDataTree, proofIndices(st))
      transition_index == get_indices(mp.elements, mp.compactProof)[1]
  IN IF ~mp.ok THEN FailWith("proveFraud", st.parentORI, FALSE, [f |-> f])
     ELSE IF ~toHex(mp.elements).ok THEN FailWith("proveFraud", st.parentORI, FALSE, [f |-> f])
     ELSE IF ~prove_fraud_ok(from, suspect, toHex(mp.elements).hex, st.currentState, mp.root,
                             mp.compactProof, st.lastTime)
          THEN FailWith("proveFraud", st.parentORI, TRUE, [f |-> f])
     ELSE /\ balances' = [[balances EXCEPT ![suspect] = 0] EXCEPT ![from] = @ + balances[suspect]]
          /\ arbiter_eth' = arbiter_eth
          /\ lockers' = [lockers EXCEPT ![from] = ZERO_ADDRESS, ![suspect] = suspect]
          /\ locked_times' = [locked_times EXCEPT ![from] = 0, ![suspect] = 0]
          /\ rollback_sizes' = [rollback_sizes EXCEPT ![suspect] = transition_index]
          /\ IF transition_index = st.fraudIndex
             THEN /\ fraudsters' = [fraudsters EXCEPT ![f].fraudIndex = Null]
                  /\ frauds' = [frauds EXCEPT ![st.parentORI] = deleteFraudster(st.parentORI, st.user)[st.parentORI]]
                  /\ last' = Done("proveFraud", st.parentORI) @@
                             [f |-> f, transition_index |-> transition_index,
                              accuser |-> from, suspect |-> suspect]
             ELSE /\ UNCHANGED <<fraudsters, frauds>>
                  /\ last' = [op |-> "proveFraud", who |-> st.parentORI, ok |-> FALSE, sent |-> TRUE,
                             mined |-> TRUE, f |-> f]
          /\ UNCHANGED <<account_states, now, txs, state, queue>>

\* arbiter rollback: the guard, for caller `user`
rollback_ok(user, rolled_back_call_data_root, rolled_back_call_data, roll_back_proof, current_size, current_size_proof, call_data_root, state_, last_time, value) ==
  LET expected_size == rollback_sizes[user]
      rolled_back_size == roll_back_proof.elementCount
      appended == try_append_many(rolled_back_call_data_root, rolled_back_call_data, roll_back_proof)
  IN /\ expected_size # 0
     /\ hashPacked(call_data_root, state_, last_time) = account_states[user]
     /\ verify_size(call_data_root, current_size, current_size_proof)
     /\ rolled_back_size < current_size
     /\ rolled_back_size >= expected_size
     /\ appended.ok /\ appended.root = call_data_root
     /\ apply_bond(user, value).ok

\* rollback(): rolls the own account back to the size the arbiter asks for
rollback(u) ==
  LET st == state[u]
      user == st.user[1]
      index == rollback_sizes[user]
      value == AmountRequired(user)
      elements == st.callDataTree.elements
      oldCallData == SubSeq(elements, 1, index)
      oldCallDataTree == MerkleTree(oldCallData)
      rolledBackCallDataArray == SubSeq(elements, index + 1, Len(elements))
      proof == appendMulti(oldCallDataTree, rolledBackCallDataArray).proof
      size == generateSizeProof(st.callDataTree)
      currentState == slice_36_68(rolledBackCallDataArray[1])
  IN IF st.callDataTree = NullTree THEN Fail("rollback", u, FALSE)
     ELSE IF ~(index < transitionCount(st)) THEN Fail("rollback", u, FALSE)
     ELSE IF ~rollback_ok(user, proof.root, rolledBackCallDataArray, proof.compactProof,
                          size.elementCount, size.elementRoot, size.root, st.currentState,
                          ToNumber(st.lastTime), value)
          THEN Fail("rollback", u, TRUE)
     ELSE /\ account_states' = [account_states EXCEPT ![user] = hashPacked(proof.root, currentState, now)]
          /\ IF proof.compactProof.elementCount = rollback_sizes[user]
             THEN /\ lockers' = [lockers EXCEPT ![user] = ZERO_ADDRESS]
                  /\ rollback_sizes' = [rollback_sizes EXCEPT ![user] = 0]
             ELSE UNCHANGED <<lockers, rollback_sizes>>
          /\ balances' = [balances EXCEPT ![user] = apply_bond(user, value).balance]
          /\ arbiter_eth' = arbiter_eth + value
          /\ state' = [state EXCEPT ![u] = [updateStateOptimistically(st, oldCallDataTree, currentState, now)
                                             EXCEPT !.fraudIndex = Null]]
          /\ last' = Done("rollback", u) @@ [tree_size |-> index]
          /\ UNCHANGED <<locked_times, now, txs, queue, frauds, fraudsters>>

Operators == {"s"}

\* a predicted new state: the honest one, or a fraudulent one
Predicted(u, currentState, arg) ==
  IF currentState = Null THEN {0}
  ELSE {some_pure_transition(u, currentState, arg),
        (some_pure_transition(u, currentState, arg) + 1) % NumStates}

\* estimators (cost by prefix length) the operator supplies: all n fit, or all but the last
Estimators(n) == {[k \in 1 .. n |-> 1], [k \in 1 .. n |-> IF k < n THEN 1 ELSE MaxCost]}

\* A call that threw before anything was mined, or whose transaction reverted,
\* ends the calling script.  Such a call changes nothing but `last`, so every
\* state a longer script reaches is still reached.
Thrown == ~last.ok /\ "mined" \notin DOMAIN last

\* The calls the applications make.  The operator queues only what can still
\* be mined, and flushes its queue before it performs anything else.
Next ==
  \/ ~Thrown /\ Tick
  \/ \E u \in Operators : ~Thrown /\ Bond(u)
  \/ \E u \in Operators, deposit \in {0, MIN_DEPOSIT} : ~Thrown /\ Initialize(u, deposit)
  \/ \E u \in Operators, fn \in {SIG_PURE, SIG_IMPURE}, arg \in Args :
       ~Thrown /\ queue[u] = <<>> /\ Normal(u, fn, arg)
  \/ \E u \in Operators, arg \in Args :
       \E newState \in Predicted(u, state[u].currentState, arg) :
         ~Thrown /\ queue[u] = <<>> /\ Optimistic(u, arg, newState)
  \/ \E u \in Operators, arg \in Args :
       \E newState \in Predicted(u, queuedState(u), arg) :
         ~Thrown /\ Len(txs) < MaxTxs /\ state[u].currentState # Null /\ Queue(u, arg, newState)
  \/ \E u \in Operators :
       \E estimator \in Estimators(Len(queue[u])) : ~Thrown /\ SendQueue(u, estimator, DEFAULT_GAS)
  \/ \E u \in Operators : ~Thrown /\ SendQueueEstimatorThrows(u)
  \/ \E u \in Operators : ~Thrown /\ queue[u] = <<>> /\ rollback(u)
  \/ \E o \in Observers, t \in 1 .. Len(txs), mode \in Modes : ~Thrown /\ verifyTransaction(o, t, mode)
  \/ \E f \in 1 .. Len(fraudsters), t \in 1 .. Len(txs) : ~Thrown /\ update(f, t)
  \/ \E f \in 1 .. Len(fraudsters) : ~Thrown /\ lock(f)
  \/ \E f \in 1 .. Len(fraudsters) : ~Thrown /\ proveFraud(f)

Spec == Init /\ [][Next]_vars

\* ------------------------------------------- an observer and the chain's feed
\* An observer's handles read nothing of the chain but the optimistic
\* transactions mined on it.  Here the chain is that feed alone: any user's
\* optimistic transaction, entering or built on some account state (tree,
\* state, time), as _getDataFromOptimisticTx returns it.

\* one or two calldata blobs of user u, the second starting from a predicted state
FeedBlobs(u) ==
  {<<getCalldata(Checksum(u), cs, SIG_PURE, arg)>> : cs \in States, arg \in Args} \cup
  UNION {{<<getCalldata(Checksum(u), cs, SIG_PURE, arg), getCalldata(Checksum(u), mid, SIG_PURE, arg)>> :
            mid \in Predicted(u, cs, arg)} : cs \in States, arg \in Args}

\* the transaction of user u that appends `blobs` to the tree with elements
\* `prior` and declares `newState`
FeedTx(u, entering, blobs, newState, prior, last_time) ==
  LET batch == Len(blobs) > 1
      tree == MerkleTree(prior)
      call_data_root == IF entering THEN ZERO_BYTES_32 ELSE TreeRoot(tree)
      sighash == IF batch
                 THEN IF entering THEN SIG_HASHES.PerformManyOptimisticallyAndEnter
                      ELSE SIG_HASHES.PerformManyOptimistically
                 ELSE IF entering THEN SIG_HASHES.PerformOptimisticallyAndEnter
                      ELSE SIG_HASHES.PerformOptimistically
  IN OptimisticTx(u, sighash,
                  OptimisticInput(entering, IF batch THEN blobs ELSE blobs[1], newState,
                                  call_data_root, appendProof(tree).compactProof, last_time),
                  IF batch THEN TOPICS.ORI_New_Optimistic_States ELSE TOPICS.ORI_New_Optimistic_State,
                  call_data_root \o blobs, Len(call_data_root))

\* a user's entering transaction is mined
MinedEntering(u, blobs, newState) ==
  /\ Len(txs) < MaxTxs
  /\ Mined(FeedTx(u, TRUE, blobs, newState, <<>>, 0))
  /\ last' = [op |-> "mined", who |-> u, ok |-> TRUE, sent |-> TRUE]
  /\ UNCHANGED <<account_states, balances, arbiter_eth, lockers, locked_times, rollback_sizes, now, localVars>>

\* a user's transaction built on the account state (prior, first blob's state,
\* last_time) is mined
MinedOn(u, blobs, newState, prior, last_time) ==
  /\ Len(txs) < MaxTxs
  /\ Mined(FeedTx(u, FALSE, blobs, newState, prior, last_time))
  /\ last' = [op |-> "mined", who |-> u, ok |-> TRUE, sent |-> TRUE]
  /\ UNCHANGED <<account_states, balances, arbiter_eth, lockers, locked_times, rollback_sizes, now, localVars>>

\* the account states a mined transaction may be built on: the one a recorded
\* fraudster is at, or one differing from it in tree or in time
PriorTrees == {<<>>} \cup {TreeRoot(fraudsters[f].callDataTree) : f \in 1 .. Len(fraudsters)}
PriorTimes == {0} \cup {fraudsters[f].lastTime : f \in 1 .. Len(fraudsters)}

NextUpdate ==
  \/ \E u \in Operators : \E blobs \in FeedBlobs(u) :
       \E newState \in Predicted(u, blobs[Len(blobs)].current_state, blobs[Len(blobs)].some_arg) :
         MinedEntering(u, blobs, newState)
  \/ \E u \in Users, prior \in PriorTrees, last_time \in PriorTimes : \E blobs \in FeedBlobs(u) :
       \E newState \in Predicted(u, blobs[Len(blobs)].current_state, blobs[Len(blobs)].some_arg) :
         fraudsters # <<>> /\ MinedOn(u, blobs, newState, prior, last_time)
  \/ \E o \in Observers, t \in 1 .. Len(txs), mode \in Modes : verifyTransaction(o, t, mode)
  \/ \E f \in 1 .. Len(fraudsters), t \in 1 .. Len(txs) : update(f, t)

SpecUpdate == Init /\ [][NextUpdate]_vars

\* ------------------------------------------------ an operator and its batcher
\* The operator bonds, initializes, queues calls and flushes the queue with an
\* estimator and a gas ceiling of its choice: options.estimator may be any
\* function of the prefix, monotone or not.
AllEstimators(n) == [1 .. n -> 1 .. MaxCost]

NextBatcher ==
  \/ \E u \in Operators : Bond(u)
  \/ \E u \in Operators : Initialize(u, MIN_DEPOSIT)
  \/ \E u \in Operators, arg \in Args :
       \E newState \in Predicted(u, queuedState(u), arg) :
         state[u].currentState # Null /\ Queue(u, arg, newState)
  \/ \E u \in Operators : clearQueue(u)
  \/ \E u \in Operators, gas \in 1 .. MaxCost :
       \E estimator \in AllEstimators(Len(queue[u])) : SendQueue(u, estimator, gas)

SpecBatcher == Init /\ [][NextBatcher]_vars

\* ------------------------------------- the verifier and committed calldata
\* The arbiter stores whatever calldata a user commits optimistically: the
\* user word and the function selector of a blob are the sender's choice.
\* The observer verifies such a transaction in every mode.
MaxVerifierTxs == 1

AnyBlob ==
  [sighash : {SIG_PURE, SIG_IMPURE, SIG_UNKNOWN}, user : Users, current_state : States, some_arg : Args]

\* one blob, or two of which the second is a pure call or undecodable
AnyBlobs ==
  {<<b>> : b \in AnyBlob} \cup
  {<<b, c>> : b \in AnyBlob, c \in {x \in AnyBlob : x.sighash # SIG_IMPURE /\ x.some_arg = 1}}

NextVerifier ==
  \/ \E u \in Operators, blobs \in AnyBlobs, newState \in States :
       Len(txs) < MaxVerifierTxs /\ MinedEntering(u, blobs, newState)
  \/ \E o \in Observers, t \in 1 .. Len(txs), mode \in Modes : verifyTransaction(o, t, mode)
  \/ \E o \in Observers, user \in AddrStrings : DeleteFraudster(o, user)

SpecVerifier == Init /\ [][NextVerifier]_vars

\* ------------------------------------------- an owner and its fraudsters
\* The observer is an operator of its own account as well: it initializes,
\* commits and queues on its own handle while it verifies the transactions
\* of both users, and updates, locks and proves on the fraudster handles it
\* got, of which it may hold up to MaxTracked at a time.
MaxTracked == 2

NextHandles ==
  \/ ~Thrown /\ Tick
  \/ \E u \in Users : ~Thrown /\ Initialize(u, MIN_DEPOSIT)
  \/ \E u \in Users, arg \in Args :
       \E newState \in Predicted(u, state[u].currentState, arg) :
         ~Thrown /\ queue[u] = <<>> /\ Optimistic(u, arg, newState)
  \/ \E o \in Observers, arg \in Args :
       \E newState \in Predicted(o, queuedState(o), arg) :
         ~Thrown /\ state[o].currentState # Null /\ queue[o] = <<>> /\ Queue(o, arg, newState)
  \/ \E o \in Observers : ~Thrown /\ clearQueue(o)
  \/ \E o \in Observers, t \in 1 .. Len(txs) : ~Thrown /\ verifyTransactionUpTo(o, t, "node", MaxTracked)
  \/ \E f \in 1 .. Len(fraudsters), t \in 1 .. Len(txs) : ~Thrown /\ update(f, t)
  \/ \E f \in 1 .. Len(fraudsters) : ~Thrown /\ lock(f)
  \/ \E f \in 1 .. Len(fraudsters) : ~Thrown /\ proveFraud(f)

SpecHandles == Init /\ [][NextHandles]_vars

\* --------------------------------------------- the arbiter, called directly
\* Every function of the arbiter is external: any account may send it any
\* transaction.  A reverted transaction leaves storage and ETH as they were.
MaxEth == 4
MaxArbiterTree == 2

is_locked(user) == lockers[user] # ZERO_ADDRESS
not_initialized(user) == account_states[user] = ZERO_BYTES_32
\* msg.value of a bonding call: nothing, or a whole bond
Values == {0, min_bond}

\* the preimage of a stored account state, known to whoever followed the chain
RootOf(user) == account_states[user][1]
StateOf(user) == account_states[user][2]
LastTimeOf(user) == account_states[user][3]

\* bond(user) payable, and receive() for user = msg.sender
arbiter_bond(caller, user, value) ==
  IF ~apply_bond(user, value).ok THEN Fail("bond", caller, TRUE)
  ELSE /\ balances' = [balances EXCEPT ![user] = apply_bond(user, value).balance]
       /\ arbiter_eth' = arbiter_eth + value
       /\ last' = Done("bond", caller) @@ [user |-> user, value |-> value]
       /\ UNCHANGED <<account_states, lockers, locked_times, rollback_sizes, now, txs, localVars>>

\* an initialize that bonds everything it is sent
arbiter_initialize_bondsAll(caller, bond_amount, value) ==
  IF ~(/\ not_initialized(caller)
       /\ bond_amount <= value
       /\ apply_bond(caller, bond_amount).ok
       /\ value - bond_amount >= MIN_DEPOSIT)
  THEN Fail("initialize", caller, TRUE)
  ELSE /\ balances' = [balances EXCEPT ![caller] = balances[caller] + value]
       /\ arbiter_eth' = arbiter_eth + value - (value - bond_amount)
       /\ account_states' = [account_states EXCEPT ![caller] = hashPacked(ZERO_BYTES_32, initialize_state(caller), 0)]
       /\ last' = Done("initialize", caller) @@ [bond_amount |-> bond_amount, value |-> value]
       /\ UNCHANGED <<lockers, locked_times, rollback_sizes, now, txs, localVars>>

\* initialize(bond_amount) payable: bonds bond_amount, forwards the rest to
\* the logic contract's initializer, which wants at least MIN_DEPOSIT
arbiter_initialize(caller, bond_amount, value) ==
  IF ~(/\ not_initialized(caller)
       /\ bond_amount <= value
       /\ apply_bond(caller, bond_amount).ok
       /\ value - bond_amount >= MIN_DEPOSIT)
  THEN Fail("initialize", caller, TRUE)
  ELSE /\ balances' = [balances EXCEPT ![caller] = apply_bond(caller, bond_amount).balance]
       /\ arbiter_eth' = arbiter_eth + value - (value - bond_amount)
       /\ account_states' = [account_states EXCEPT ![caller] = hashPacked(ZERO_BYTES_32, initialize_state(caller), 0)]
       /\ last' = Done("initialize", caller) @@ [bond_amount |-> bond_amount, value |-> value]
       /\ UNCHANGED <<lockers, locked_times, rollback_sizes, now, txs, localVars>>

\* the logic contract accepts ETH only in its payable transition
LogicAccepts(call_data, value) == value = 0 \/ call_data.sighash = SIG_IMPURE

\* normal_perform, entered by perform (modifiers hold) or by perform_and_exit
arbiter_normal_perform(fn, modifiers, caller, call_data, call_data_root, last_time, value) ==
  IF ~(/\ modifiers
       /\ normal_perform_ok(caller, call_data, call_data_root, last_time)
       /\ LogicAccepts(call_data, value))
  THEN Fail(fn, caller, TRUE)
  ELSE /\ account_states' = [account_states EXCEPT ![caller] = hashPacked(ZERO_BYTES_32, LogicCall(call_data, now), 0)]
       /\ arbiter_eth' = arbiter_eth + value - value
       /\ last' = Done(fn, caller) @@ [value |-> value]
       /\ UNCHANGED <<balances, lockers, locked_times, rollback_sizes, now, txs, localVars>>

arbiter_perform(caller, call_data, value) ==
  arbiter_normal_perform("perform", TRUE, caller, call_data, ZERO_BYTES_32, 0, value)

arbiter_perform_and_exit(caller, call_data, call_data_root, last_time, value) ==
  arbiter_normal_perform("perform_and_exit", no_rollback_required(caller) /\ can_exit_optimism(last_time),
                         caller, call_data, call_data_root, last_time, value)

\* optimistic_perform and optimistic_perform_many (modifiers: sufficient_calldata)
arbiter_optimistic_perform(fn, modifiers, caller, call_data, new_state, call_data_root, proof, last_time) ==
  IF ~(modifiers /\ optimistic_perform_ok(caller, call_data, call_data_root, proof, last_time))
  THEN Fail(fn, caller, TRUE)
  ELSE /\ account_states' = [account_states EXCEPT ![caller] =
            hashPacked(try_append_many(call_data_root, call_data, proof).root, new_state, now)]
       /\ last' = Done(fn, caller) @@ [n |-> Len(call_data)]
       /\ UNCHANGED <<balances, arbiter_eth, lockers, locked_times, rollback_sizes, now, txs, localVars>>

arbiter_perform_optimistically_and_enter(caller, call_data, new_state, proof) ==
  arbiter_optimistic_perform("perform_optimistically_and_enter", TRUE, caller, <<call_data>>, new_state,
                             ZERO_BYTES_32, proof, 0)

arbiter_perform_optimistically(caller, call_data, new_state, call_data_root, proof, last_time) ==
  arbiter_optimistic_perform("perform_optimistically", TRUE, caller, <<call_data>>, new_state,
                             call_data_root, proof, last_time)

arbiter_perform_many_optimistically_and_enter(caller, call_data, new_state, proof) ==
  arbiter_optimistic_perform("perform_many_optimistically_and_enter", sufficient_calldata(call_data),
                             caller, call_data, new_state, ZERO_BYTES_32, proof, 0)

arbiter_perform_many_optimistically(caller, call_data, new_state, call_data_root, proof, last_time) ==
  arbiter_optimistic_perform("perform_many_optimistically", sufficient_calldata(call_data),
                             caller, call_data, new_state, call_data_root, proof, last_time)

\* a lock_user that does not look at the suspect's lock
arbiter_lock_user_overLock(accuser, suspect, value) ==
  IF ~(not_locked(accuser) /\ apply_bond(accuser, value).ok) THEN Fail("lock_user", accuser, TRUE)
  ELSE /\ lockers' = [[lockers EXCEPT ![suspect] = accuser] EXCEPT ![accuser] = accuser]
       /\ locked_times' = [[locked_times EXCEPT ![suspect] = now] EXCEPT ![accuser] = now]
       /\ balances' = [balances EXCEPT ![accuser] = apply_bond(accuser, value).balance]
       /\ arbiter_eth' = arbiter_eth + value
       /\ last' = Done("lock_user", accuser) @@ [suspect |-> suspect, value |-> value]
       /\ UNCHANGED <<account_states, rollback_sizes, now, txs, localVars>>

\* lock_user(suspect) payable
arbiter_lock_user(accuser, suspect, value) ==
  IF ~lock_user_ok(accuser, suspect, value) THEN Fail("lock_user", accuser, TRUE)
  ELSE /\ lockers' = [[lockers EXCEPT ![suspect] = accuser] EXCEPT ![accuser] = accuser]
       /\ locked_times' = [[locked_times EXCEPT ![suspect] = now] EXCEPT ![accuser] = now]
       /\ balances' = [balances EXCEPT ![accuser] = apply_bond(accuser, value).balance]
       /\ arbiter_eth' = arbiter_eth + value
       /\ last' = Done("lock_user", accuser) @@ [suspect |-> suspect, value |-> value]
       /\ UNCHANGED <<account_states, rollback_sizes, now, txs, localVars>>

\* unlock(suspect, state, call_data_root, last_time), by anyone
arbiter_unlock(caller, suspect, state_, call_data_root, last_time) ==
  LET accuser == lockers[suspect]
  IN IF ~(/\ is_locked(suspect)
          /\ lock_expired(suspect)
          /\ no_rollback_required(suspect)
          /\ hashPacked(call_data_root, state_, last_time) = account_states[suspect])
     THEN Fail("unlock", caller, TRUE)
     ELSE /\ lockers' = [[lockers EXCEPT ![suspect] = ZERO_ADDRESS] EXCEPT ![accuser] = ZERO_ADDRESS]
          /\ locked_times' = [[locked_times EXCEPT ![suspect] = 0] EXCEPT ![accuser] = 0]
          /\ balances' = [[balances EXCEPT ![accuser] = 0] EXCEPT ![suspect] = @ + balances[accuser]]
          /\ arbiter_eth' = arbiter_eth
          /\ account_states' = [account_states EXCEPT ![suspect] = hashPacked(call_data_root, state_, now)]
          /\ last' = Done("unlock", caller) @@ [suspect |-> suspect, accuser |-> accuser]
          /\ UNCHANGED <<rollback_sizes, now, txs, localVars>>

\* prove_fraud(suspect, call_data, state, call_data_root, proof, last_time)
arbiter_prove_fraud(accuser, suspect, call_data, state_, call_data_root, proof, last_time) ==
  LET transition_index == get_indices(call_data, proof)[1]
  IN IF ~prove_fraud_ok(accuser, suspect, call_data, state_, call_data_root, proof, last_time)
     THEN Fail("prove_fraud", accuser, TRUE)
     ELSE /\ balances' = [[balances EXCEPT ![suspect] = 0] EXCEPT ![accuser] = @ + balances[suspect]]
          /\ arbiter_eth' = arbiter_eth
          /\ lockers' = [[lockers EXCEPT ![accuser] = ZERO_ADDRESS] EXCEPT ![suspect] = suspect]
          /\ locked_times' = [[locked_times EXCEPT ![accuser] = 0] EXCEPT ![suspect] = 0]
          /\ rollback_sizes' = [rollback_sizes EXCEPT ![suspect] = transition_index]
          /\ last' = Done("prove_fraud", accuser) @@
                     [suspect |-> suspect, transition_index |-> transition_index]
          /\ UNCHANGED <<account_states, now, txs, localVars>>

\* rollback(...) payable, to the first `size` elements of the caller's tree
arbiter_rollback(user, rolled_back_call_data_root, rolled_back_call_data, roll_back_proof, current_size, current_size_proof, call_data_root, state_, last_time, value) ==
  IF ~rollback_ok(user, rolled_back_call_data_root, rolled_back_call_data, roll_back_proof, current_size,
                  current_size_proof, call_data_root, state_, last_time, value)
  THEN Fail("rollback", user, TRUE)
  ELSE /\ account_states' = [account_states EXCEPT ![user] =
            hashPacked(rolled_back_call_data_root, slice_36_68(rolled_back_call_data[1]), now)]
       /\ IF roll_back_proof.elementCount = rollback_sizes[user]
          THEN /\ lockers' = [lockers EXCEPT ![user] = ZERO_ADDRESS]
               /\ rollback_sizes' = [rollback_sizes EXCEPT ![user] = 0]
          ELSE UNCHANGED <<lockers, rollback_sizes>>
       /\ balances' = [balances EXCEPT ![user] = apply_bond(user, value).balance]
       /\ arbiter_eth' = arbiter_eth + value
       /\ last' = Done("rollback", user) @@ [tree_size |-> roll_back_proof.elementCount, value |-> value]
       /\ UNCHANGED <<locked_times, now, txs, localVars>>

\* an unbond that pays out without clearing the balance
arbiter_unbond_keepBalance(caller, destination) ==
  IF ~not_locked(caller) THEN Fail("unbond", caller, TRUE)
  ELSE /\ balances' = balances
       /\ arbiter_eth' = arbiter_eth - balances[caller]
       /\ last' = Done("unbond", caller) @@ [amount |-> balances[caller]]
       /\ UNCHANGED <<account_states, lockers, locked_times, rollback_sizes, now, txs, localVars>>

\* unbond(destination): the caller's whole balance leaves the arbiter
arbiter_unbond(caller, destination) ==
  IF ~not_locked(caller) THEN Fail("unbond", caller, TRUE)
  ELSE /\ balances' = [balances EXCEPT ![caller] = 0]
       /\ arbiter_eth' = arbiter_eth - balances[caller]
       /\ last' = Done("unbond", caller) @@ [amount |-> balances[caller]]
       /\ UNCHANGED <<account_states, lockers, locked_times, rollback_sizes, now, txs, localVars>>

\* calldata a sender builds on the state its account is in
BlobOn(caller, sighash, arg) ==
  [sighash |-> sighash, user |-> caller, current_state |-> StateOf(caller), some_arg |-> arg]
\* a second blob of a batch, on the state the first one leads to
BlobAfter(caller, blob) ==
  [sighash |-> SIG_PURE, user |-> caller, current_state |-> LogicCall(blob, now), some_arg |-> 1]
\* the append proof of the tree with this root
ProofOf(call_data_root) == [elementCount |-> Len(call_data_root), decommitments |-> call_data_root]
\* the multi proof of `n` consecutive elements from index i of the tree with this root
MultiProofOf(call_data_root, i, n) ==
  [elementCount |-> Len(call_data_root), indices |-> [k \in 1 .. n |-> i + k - 1],
   decommitments |-> call_data_root]

Initialized(user) == ~not_initialized(user)
Optimists == {"s"}

\* the new state a sender declares for its last blob: the honest one, or a wrong one
Declared(caller, blob) == {LogicCall(blob, now), (LogicCall(blob, now) + 1) % NumStates}

NextArbiter ==
  \/ Tick
  \/ \E caller \in Users, user \in Users, value \in Values :
       arbiter_eth + value <= MaxEth /\ arbiter_bond(caller, user, value)
  \/ \E caller \in Optimists, bond_amount \in {0, min_bond} :
       arbiter_eth + bond_amount <= MaxEth /\ arbiter_initialize(caller, bond_amount, bond_amount + MIN_DEPOSIT)
  \/ \E caller \in Optimists, sighash \in {SIG_PURE, SIG_IMPURE}, value \in {0, MIN_DEPOSIT} :
       Initialized(caller) /\ arbiter_perform(caller, BlobOn(caller, sighash, 1), value)
  \/ \E caller \in Optimists :
       /\ Initialized(caller)
       /\ arbiter_perform_and_exit(caller, BlobOn(caller, SIG_IMPURE, 1), RootOf(caller), LastTimeOf(caller), 0)
  \/ \E caller \in Optimists :
       /\ Initialized(caller)
       /\ \E new_state \in Declared(caller, BlobOn(caller, SIG_PURE, 1)) :
            arbiter_perform_optimistically_and_enter(caller, BlobOn(caller, SIG_PURE, 1), new_state,
                                                   ProofOf(ZERO_BYTES_32))
  \/ \E caller \in Optimists :
       /\ Initialized(caller) /\ Len(RootOf(caller)) < MaxArbiterTree
       /\ \E new_state \in Declared(caller, BlobOn(caller, SIG_PURE, 1)) :
            arbiter_perform_optimistically(caller, BlobOn(caller, SIG_PURE, 1), new_state, RootOf(caller),
                                         ProofOf(RootOf(caller)), LastTimeOf(caller))
  \/ \E caller \in Optimists, n \in 1 .. 2 :
       /\ Initialized(caller)
       /\ LET first == BlobOn(caller, SIG_PURE, 1)
              call_data == IF n = 1 THEN <<first>> ELSE <<first, BlobAfter(caller, first)>>
          IN \E new_state \in Declared(caller, call_data[n]) :
               arbiter_perform_many_optimistically_and_enter(caller, call_data, new_state, ProofOf(ZERO_BYTES_32))
  \/ \E caller \in Optimists, n \in 1 .. 2 :
       /\ Initialized(caller) /\ Len(RootOf(caller)) + n <= MaxArbiterTree
       /\ LET first == BlobOn(caller, SIG_PURE, 1)
              call_data == IF n = 1 THEN <<first>> ELSE <<first, BlobAfter(caller, first)>>
          IN \E new_state \in Declared(caller, call_data[n]) :
               arbiter_perform_many_optimistically(caller, call_data, new_state, RootOf(caller),
                                                 ProofOf(RootOf(caller)), LastTimeOf(caller))
  \/ \E accuser \in Users, suspect \in Users, value \in {0, min_bond} :
       arbiter_eth + value <= MaxEth /\ arbiter_lock_user(accuser, suspect, value)
  \/ \E caller \in Users, suspect \in Users :
       /\ Initialized(suspect)
       /\ arbiter_unlock(caller, suspect, StateOf(suspect), RootOf(suspect), LastTimeOf(suspect))
  \/ \E accuser \in Users, suspect \in Optimists, n \in 1 .. 2 :
       /\ Initialized(suspect)
       /\ \E i \in 0 .. (Len(RootOf(suspect)) - n) :
            arbiter_prove_fraud(accuser, suspect, SubSeq(RootOf(suspect), i + 1, i + n), StateOf(suspect),
                                RootOf(suspect), MultiProofOf(RootOf(suspect), i, n), LastTimeOf(suspect))
  \/ \E user \in Optimists, value \in {0, min_bond} :
       /\ Initialized(user) /\ arbiter_eth + value <= MaxEth
       /\ \E size \in 0 .. (Len(RootOf(user)) - 1) :
            arbiter_rollback(user, SubSeq(RootOf(user), 1, size),
                             SubSeq(RootOf(user), size + 1, Len(RootOf(user))),
                             ProofOf(SubSeq(RootOf(user), 1, size)), Len(RootOf(user)), RootOf(user),
                             RootOf(user), StateOf(user), LastTimeOf(user), value)
  \/ \E caller \in Users, destination \in Users : arbiter_unbond(caller, destination)

SpecArbiter == Init /\ [][NextArbiter]_vars

\* ------------------------------------------------- on-chain lock queries
\* the getters of the arbiter's ABI: its public state variables
ArbiterGetters ==
  {"logic_address", "initializer", "lock_time", "min_bond",
   "balances", "account_states", "lockers", "locked_times", "rollback_sizes"}

\* this._oriContract.methods.<name>(user).call(): a name the ABI does not
\* have is undefined, and calling it is a TypeError
contractCall(name, value) ==
  IF name \in ArbiterGetters THEN [ok |-> TRUE, value |-> value] ELSE [ok |-> FALSE, err |-> "TypeError"]

\* getLockTimestamp(user): reads locked_timestamps(user)
getLockTimestamp(user) == contractCall("locked_timestamps", locked_times[user[1]])

\* the arithmetic of getLockTimeRemaining on a block time and a lock time
timeRemainingAt(timestamp, lockTimestamp) ==
  LET timeRemaining == timestamp - (lockTimestamp + lock_time)
  IN IF timeRemaining > 0 THEN timeRemaining ELSE 0

\* getLockTimeRemaining(user)
getLockTimeRemaining(user) ==
  LET timestamp == now
      lockTimestamp == getLockTimestamp(user)
  IN IF ~lockTimestamp.ok THEN lockTimestamp
     ELSE [ok |-> TRUE, value |-> timeRemainingAt(timestamp, lockTimestamp.value)]

\* ================================================================ claims
OwnOps == {"initialize", "normal", "optimistic", "sendQueue", "rollback"}

\* C1: after every successful own-account operation of an operator handle
\* (initialize, normal, optimistic, sendQueue, rollback) the fingerprint the
\* handle computes from its tree root, current state and last time equals the
\* account state the arbiter stores for that user.
C1_FingerprintMatchesArbiter ==
  (last.op \in OwnOps /\ last.ok) =>
    accountState(state[last.who]) = account_states[state[last.who].user[1]]

\* a rollback has been mined and the rolled-back handle agrees with the arbiter
C1_Witness ==
  /\ last.op = "rollback" /\ last.ok
  /\ account_states[last.who] # ZERO_BYTES_32
  /\ transitionCount(state[last.who]) = last.tree_size
  /\ accountState(state[last.who]) = account_states[last.who]

\* the calldata blobs of an optimistic transaction, as a sequence
BlobsOf(tx) == IF IsBatch(tx) THEN tx.input.call_data ELSE <<tx.input.call_data>>

\* transition i of the transaction is valid for the logic contract: blob i,
\* made by the suspect, takes its embedded state to the state declared next
DeclaredAfter(tx, i) ==
  IF i < Len(BlobsOf(tx)) THEN BlobsOf(tx)[i + 1].current_state ELSE tx.input.new_state

TransitionHolds(tx, i) ==
  /\ BlobsOf(tx)[i].user = tx.from
  /\ LogicCall(BlobsOf(tx)[i], now) = DeclaredAfter(tx, i)

TxValid(tx) == \A i \in 1 .. Len(BlobsOf(tx)) : TransitionHolds(tx, i)

\* verifyTransaction(o, t, mode) returned: the verdict it gave is `verdict`, for
\* the suspect of the transaction, and a fraudster is recorded exactly when the
\* verdict is "invalid"
Verdict(o, t, verdict) ==
  /\ last'.valid = verdict
  /\ compareHex(last'.user, Checksum(txs[t].from))
  /\ IF verdict
     THEN frauds' = frauds /\ fraudsters' = fraudsters
     ELSE /\ getFraudster(o, Checksum(txs[t].from))' \in 1 .. Len(fraudsters')
          /\ compareHex(fraudsters'[getFraudster(o, Checksum(txs[t].from))'].user, Checksum(txs[t].from))
          /\ getFraudster(o, Checksum(txs[t].from))' \notin 1 .. Len(fraudsters)

FraudRecorded == last.op = "verifyTransaction" /\ last.ok /\ ~last.valid
RecordedFraudster == fraudsters[getFraudster(last.who, last.user)]

\* C3: a fraudster newly recorded from one observed transaction has a
\* fingerprint (tree root, current state, last time) equal to the account state
\* the arbiter stored for the suspect when it mined that transaction.
C3_NewFraudsterFingerprint ==
  FraudRecorded => accountState(RecordedFraudster) = txs[last.tx].ghost.account_state

\* a fraud recorded from a transaction that appended to a non-empty tree, so
\* that the partial tree holds elements the observer never saw
C3_Witness ==
  /\ FraudRecorded
  /\ txs[last.tx].ghost.size_before > 0
  /\ RecordedFraudster.callDataTree.elements[1] = Undef
  /\ accountState(RecordedFraudster) = account_states[txs[last.tx].from]

\* transition i (1-based) fails the verifier's check in this mode
Fails(tx, i, mode) == ~(mode # "error" /\ TransitionHolds(tx, i))

\* 0-based position of the first failing transition of the transaction
FirstFailing(tx, mode) ==
  IF \E i \in 1 .. Len(BlobsOf(tx)) : Fails(tx, i, mode)
  THEN CHOOSE i \in 0 .. Len(BlobsOf(tx)) - 1 :
         Fails(tx, i + 1, mode) /\ \A j \in 1 .. i : ~Fails(tx, j, mode)
  ELSE Null

\* C4: the fraud index of a fraudster recorded from transaction tx is
\* (elements of its partial tree) - (blobs of tx) + (local fraud index), which
\* is the number of elements the suspect's tree held before tx plus the
\* position of the first invalid transition inside tx (0 for a single one).
C4_FraudIndexIsGlobal ==
  FraudRecorded =>
    LET tx == txs[last.tx]
        fr == RecordedFraudster
    IN /\ fr.fraudIndex = Len(fr.callDataTree.elements) - Len(BlobsOf(tx)) + last.localIndex
       /\ fr.fraudIndex = tx.ghost.size_before + FirstFailing(tx, last.mode)
       /\ IsSingle(tx) => last.localIndex = 0

\* a fraud inside a batch, not at its first transition, appended to a non-empty tree
C4_Witness ==
  /\ FraudRecorded
  /\ IsBatch(txs[last.tx])
  /\ txs[last.tx].ghost.size_before > 0
  /\ last.localIndex > 0
  /\ RecordedFraudster.fraudIndex = txs[last.tx].ghost.size_before + last.localIndex

\* C5: batch verification checks blob i against the current_state embedded in
\* blob i+1 (against the declared final state for the last blob), in
\* increasing i; it reports valid exactly when no transition fails, and
\* otherwise reports the smallest failing i as the local fraud index.
C5_BatchPairsWithNextBlob ==
  (last.op = "verifyTransaction" /\ last.ok /\ IsBatch(txs[last.tx])) =>
    LET tx == txs[last.tx]
        n == Len(BlobsOf(tx))
    IN /\ last.valid = (\A i \in 1 .. n : ~Fails(tx, i, last.mode))
       /\ ~last.valid =>
            /\ last.localIndex \in 0 .. n - 1
            /\ Fails(tx, last.localIndex + 1, last.mode)
            /\ \A j \in 1 .. last.localIndex : ~Fails(tx, j, last.mode)

\* a batch whose first transition is valid and whose second and third both
\* fail has been verified without an error: the second is the one reported
C5_Witness ==
  /\ last.op = "verifyTransaction" /\ last.ok /\ last.mode = "pure"
  /\ IsBatch(txs[last.tx]) /\ Len(BlobsOf(txs[last.tx])) = 3
  /\ TransitionHolds(txs[last.tx], 1)
  /\ ~TransitionHolds(txs[last.tx], 2) /\ ~TransitionHolds(txs[last.tx], 3)
  /\ ~last.valid /\ last.localIndex = 1

\* C6: when update(tx) on a fraudster succeeds, the fraudster's fingerprint
\* equals the account state the arbiter stored for the suspect when it mined
\* tx, and the fraudster's tree has grown by exactly tx's blobs, its current
\* state and last time being tx's declared new state and block time.
C6_UpdateFollowsSuspect ==
  [][\A f \in 1 .. Len(fraudsters), t \in 1 .. Len(txs) :
       (update(f, t) /\ last'.ok) =>
         /\ accountState(fraudsters'[f]) = txs[t].ghost.account_state
         /\ fraudsters'[f].callDataTree.elements =
              fraudsters[f].callDataTree.elements \o BlobsOf(txs[t])
         /\ fraudsters'[f].callDataTree.base = fraudsters[f].callDataTree.base
         /\ fraudsters'[f].currentState = txs[t].input.new_state
         /\ fraudsters'[f].lastTime = txs[t].logs[1].topic2
         /\ fraudsters'[f].fraudIndex = fraudsters[f].fraudIndex]_vars

\* a fraudster has followed the suspect's next transaction and agrees with the arbiter
C6_Witness ==
  /\ last.op = "update" /\ last.ok
  /\ compareHex(fraudsters[last.f].user, Checksum(txs[last.tx].from))
  /\ transitionCount(fraudsters[last.f]) = txs[last.tx].ghost.size_before + Len(BlobsOf(txs[last.tx]))
  /\ accountState(fraudsters[last.f]) = account_states[txs[last.tx].from]

\* what a transaction declares it was built on (the entering variants are
\* built on the empty account: no tree, time 0)
PriorRoot(tx) == IF "call_data_root" \in DOMAIN tx.input THEN tx.input.call_data_root ELSE ZERO_BYTES_32
PriorTime(tx) == IF "last_time" \in DOMAIN tx.input THEN tx.input.last_time ELSE 0

\* the preconditions of update(tx) on handle state st
UpdatePreconditions(st, tx) ==
  /\ compareHex(Checksum(tx.logs[1].topic1), st.user)
  /\ PriorRoot(tx) = TreeRoot(st.callDataTree)
  /\ PriorTime(tx) = st.lastTime
  /\ BlobsOf(tx)[1].current_state = st.currentState

\* C7: update(tx), tx an optimistic transaction, on a fraudster fails and leaves the fraudster (tree, current
\* state, last time, fraud index) unchanged whenever tx's user differs from the
\* fraudster's user, or tx's declared prior root differs from the fraudster's
\* tree root, or tx's declared prior last_time differs from the fraudster's
\* last time, or the state embedded in tx's first blob differs from the
\* fraudster's current state.
C7_RejectedUpdateChangesNothing ==
  [][\A f \in 1 .. Len(fraudsters), t \in 1 .. Len(txs) :
       (HasOriLog(txs[t]) /\ update(f, t) /\ ~UpdatePreconditions(fraudsters[f], txs[t])) =>
         /\ ~last'.ok
         /\ fraudsters' = fraudsters
         /\ UNCHANGED <<chainVars, state, queue, frauds>>]_vars

\* an update was rejected for the first blob's state alone: user, root and
\* last time of the transaction all match the fraudster
C7_Witness ==
  /\ last.op = "update" /\ ~last.ok
  /\ compareHex(Checksum(txs[last.tx].logs[1].topic1), fraudsters[last.f].user)
  /\ PriorRoot(txs[last.tx]) = TreeRoot(fraudsters[last.f].callDataTree)
  /\ PriorTime(txs[last.tx]) = fraudsters[last.f].lastTime
  /\ BlobsOf(txs[last.tx])[1].current_state # fraudsters[last.f].currentState
  /\ fraudsters[last.f].fraudIndex # Null

\* C8: after proveFraud succeeds (the arbiter reports the fraud proven by this
\* accuser against this suspect at the handle's fraud index) the handle's
\* fraud index is cleared and the owner's getFraudster(suspect) no longer
\* returns the handle.
C8_ProvenFraudIsForgotten ==
  [][\A f \in 1 .. Len(fraudsters) :
       (proveFraud(f) /\ last'.ok) =>
         /\ last'.accuser = fraudsters[f].sourceAddress[1]
         /\ compareHex(Checksum(last'.suspect), fraudsters[f].user)
         /\ last'.transition_index = fraudsters[f].fraudIndex
         /\ rollback_sizes'[last'.suspect] = fraudsters[f].fraudIndex
         /\ fraudsters'[f].fraudIndex = Null
         /\ getFraudster(fraudsters[f].parentORI, Checksum(fraudsters[f].user[1]))' = Null]_vars

\* a fraud was proven: the handle has no fraud index and its owner no fraudster
C8_Witness ==
  /\ last.op = "proveFraud" /\ last.ok
  /\ fraudsters[last.f].fraudIndex = Null
  /\ getFraudster(last.who, Checksum(last.suspect)) = Null
  /\ lockers[last.suspect] = last.suspect

\* C9: proveFraud on a handle whose fraud index is not set (in particular a
\* second proveFraud after a successful one) fails, and nothing is submitted
\* to the arbiter: no account, balance, lock or handle changes.
C9_NoFraudIndexNothingSent ==
  [][\A f \in 1 .. Len(fraudsters) :
       (fraudsters[f].fraudIndex = Null /\ proveFraud(f)) =>
         /\ ~last'.ok /\ ~last'.sent
         /\ UNCHANGED <<chainVars, localVars>>]_vars

\* a second proveFraud on a handle whose fraud was already proven has failed
C9_Witness ==
  /\ last.op = "proveFraud" /\ ~last.ok /\ ~last.sent
  /\ fraudsters[last.f].fraudIndex = Null
  /\ lockers[fraudsters[last.f].user[1]] = fraudsters[last.f].user[1]

\* the estimator does not decrease with the prefix length
Monotone(estimator) ==
  \A i, j \in DOMAIN estimator : i <= j => estimator[i] <= estimator[j]

\* C10: with an estimator that is monotonic non-decreasing in the prefix
\* length, sendQueue selects the longest queue prefix whose estimate does not
\* exceed the gas ceiling: for the selected index k the estimate of k+1 items
\* is within the ceiling and either the whole queue is selected or the
\* estimate of k+2 items exceeds it; that prefix is what is submitted, and a
\* mined transaction carries exactly those k+1 items, the rest staying queued.
C10_LongestAffordablePrefix ==
  (last.op = "sendQueue" /\ "index" \in DOMAIN last /\ Monotone(last.estimator)) =>
    LET k == last.index
    IN /\ k \in -1 .. last.n - 1
       /\ k >= 0 => last.estimator[k + 1] <= last.gas
       /\ k + 1 = last.n \/ last.estimator[k + 2] > last.gas
       /\ \A m \in 1 .. last.n : last.estimator[m] <= last.gas => m <= k + 1
       /\ last.sent = (k >= 0)
       /\ last.ok => /\ Len(BlobsOf(txs[Len(txs)])) = k + 1
                     /\ Len(queue[last.who]) = last.n - (k + 1)

\* of three queued calls two fit under the ceiling and the third does not:
\* the two were mined as one batch and the third is still queued
C10_Witness ==
  /\ last.op = "sendQueue" /\ last.ok
  /\ last.n = 3 /\ last.estimator = <<1, 1, 2>> /\ last.gas = 1
  /\ last.index = 1
  /\ Len(BlobsOf(txs[Len(txs)])) = 2
  /\ Len(queue[last.who]) = 1

C12_FlushedPrefixLeavesQueue ==
  [][\A u \in Operators, gas \in 1 .. MaxCost :
       \A estimator \in AllEstimators(Len(queue[u])) :
         (SendQueue(u, estimator, gas) /\ last'.ok) =>
           LET k == last'.index
           IN /\ k + 1 \in 1 .. Len(queue[u])
              /\ Len(BlobsOf(txs'[Len(txs')])) = k + 1
              /\ Len(queue'[u]) = Len(queue[u]) - (k + 1)
              /\ \A i \in 1 .. Len(queue'[u]) : queue'[u][i] = queue[u][k + 1 + i]
              /\ state'[u].currentState = queue[u][k + 1].newState
              /\ txs'[Len(txs')].input.new_state = queue[u][k + 1].newState]_vars

\* a partial flush: two of three items were mined, the third is still queued
\* and starts from the state the handle is now in
C12_Witness ==
  /\ last.op = "sendQueue" /\ last.ok /\ last.n = 3 /\ last.index = 1
  /\ Len(queue[last.who]) = 1
  /\ state[last.who].currentState = txs[Len(txs)].input.new_state
  /\ queuedState(last.who) = queue[last.who][1].newState

\* C13: from any non-empty queue in which every single item fits within the
\* gas ceiling, with every chain write succeeding, each sendQueue removes at
\* least one item, so that no queue length is left from which sendQueue can
\* no longer make progress and repeated calls empty the queue.  (Violated: a
\* queue of one item, such as a partial flush leaves behind, is refused
\* before anything is sent.)
C13_EachFlushMakesProgress ==
  [][\A u \in Operators, gas \in 1 .. MaxCost :
       \A estimator \in AllEstimators(Len(queue[u])) :
         (/\ queue[u] # <<>>
          /\ state[u].currentState # Null
          /\ Monotone(estimator) /\ estimator[1] <= gas
          /\ SendQueue(u, estimator, gas)
          /\ last'.sent => last'.ok) =>
           Len(queue'[u]) < Len(queue[u])]_vars

\* the one item a partial flush left queued has been refused unsent
C13_Witness ==
  /\ last.op = "sendQueue" /\ ~last.ok /\ ~last.sent
  /\ Len(queue[last.who]) = 1
  /\ Len(txs) = 1 /\ IsBatch(txs[1])
  /\ transitionCount(state[last.who]) = 2

\* C14: after a successful rollback to the size i the arbiter requires (i
\* smaller than the handle's transition count) the handle's tree holds exactly
\* the former elements 0..i-1, unchanged and in order, its current state is
\* the current_state field of the former element i, its last time is the
\* rollback's block time (so the account stays optimistic) and its fraud index
\* is cleared; when the required size is not smaller than the transition
\* count, rollback fails and changes nothing.
C14_RollbackKeepsPrefix ==
  [][\A u \in Operators :
       rollback(u) =>
         LET st == state[u]
             i == rollback_sizes[st.user[1]]
         IN IF st.callDataTree # NullTree /\ i < Len(st.callDataTree.elements)
            THEN IF last'.ok
                 THEN /\ state'[u].callDataTree.elements = SubSeq(st.callDataTree.elements, 1, i)
                      /\ state'[u].callDataTree.base = <<>>
                      /\ state'[u].currentState = st.callDataTree.elements[i + 1].current_state
                      /\ state'[u].lastTime = now /\ now > 0
                      /\ isInOptimisticState(state'[u])
                      /\ state'[u].fraudIndex = Null
                      /\ last'.tree_size = i
                 ELSE UNCHANGED <<chainVars, localVars>>
            ELSE ~last'.ok /\ ~last'.sent /\ UNCHANGED <<chainVars, localVars>>]_vars

\* a handle of three transitions was rolled back to the first one
C14_Witness ==
  /\ last.op = "rollback" /\ last.ok /\ last.tree_size = 1
  /\ Len(state[last.who].callDataTree.elements) = 1
  /\ \E t \in 1 .. Len(txs) :
       /\ IsBatch(txs[t]) /\ txs[t].ghost.size_before = 1
       /\ state[last.who].currentState = BlobsOf(txs[t])[1].current_state
  /\ isInOptimisticState(state[last.who])

\* C15: normal() on an optimistic account fails, submitting nothing and
\* leaving everything unchanged, whenever now < last_time + lock_time; when
\* last_time + lock_time <= now (the account neither locked nor owing a
\* rollback, the handle agreeing with the arbiter) it submits a
\* perform-and-exit carrying the current root and last time, the arbiter
\* accepts it, and the account becomes pessimistic.  (Violated at
\* now = last_time + lock_time: the handle submits, the arbiter wants
\* last_time + lock_time < now.)
C15_ExitAfterLockWindow ==
  [][\A u \in Operators, fn \in {SIG_PURE, SIG_IMPURE}, arg \in Args :
       (/\ state[u].lastTime > 0
        /\ not_locked(u) /\ no_rollback_required(u)
        /\ accountState(state[u]) = account_states[u]
        /\ Normal(u, fn, arg)) =>
         IF now < state[u].lastTime + lock_time
         THEN ~last'.ok /\ ~last'.sent /\ UNCHANGED <<chainVars, localVars>>
         ELSE /\ last'.ok /\ last'.sent
              /\ txs'[Len(txs')].sighash = "perform_and_exit"
              /\ ~isInOptimisticState(state'[u])
              /\ accountState(state'[u]) = account_states'[u]]_vars

\* an exit submitted exactly when the lock window ends was rejected by the arbiter
C15_Witness ==
  /\ last.op = "normal" /\ ~last.ok /\ last.sent
  /\ state[last.who].lastTime > 0
  /\ not_locked(last.who) /\ no_rollback_required(last.who)
  /\ accountState(state[last.who]) = account_states[last.who]
  /\ now = state[last.who].lastTime + lock_time

\* C16: after any successful initialize() or normal() (a normal() that exits
\* optimism included) the handle's tree is empty (transition count 0), its
\* last time is 0, and its current state is the new state the arbiter emitted
\* and stored for this user.
C16_PessimisticUpdateResets ==
  (last.op \in {"initialize", "normal"} /\ last.ok) =>
    LET st == state[last.who]
    IN /\ transitionCount(st) = 0
       /\ TreeRoot(st.callDataTree) = ZERO_BYTES_32
       /\ st.lastTime = 0
       /\ account_states[last.who] = hashPacked(ZERO_BYTES_32, st.currentState, 0)
       /\ last.op = "normal" => txs[Len(txs)].logs[1].topic2 = st.currentState

\* a normal() has taken an optimistic account with one transition out of optimism
C16_Witness ==
  /\ last.op = "normal" /\ last.ok /\ last.exiting
  /\ Len(txs) = 2 /\ IsSingle(txs[1]) /\ txs[2].sighash = "perform_and_exit"
  /\ transitionCount(state[last.who]) = 0
  /\ state[last.who].lastTime = 0
  /\ state[last.who].currentState = txs[2].logs[1].topic2

\* C17: optimistic() on a pessimistic account submits the enter variant (no
\* prior root or last time) and on an optimistic account the non-enter variant
\* carrying the current tree root and last time; on success the transition
\* count grows by exactly 1, the current state becomes the predicted new
\* state, and the last time becomes the commitment's block time (> 0), so the
\* account is optimistic.
C17_OptimisticCommitment ==
  [][\A u \in Operators, arg \in Args, newState \in States :
       (Optimistic(u, arg, newState) /\ last'.ok) =>
         LET st == state[u]
             tx == txs'[Len(txs')]
         IN /\ Len(txs') = Len(txs) + 1
            /\ IF st.lastTime = 0
               THEN /\ tx.sighash = SIG_HASHES.PerformOptimisticallyAndEnter
                    /\ DOMAIN tx.input = {"call_data", "new_state", "proof"}
               ELSE /\ tx.sighash = SIG_HASHES.PerformOptimistically
                    /\ tx.input.call_data_root = TreeRoot(st.callDataTree)
                    /\ tx.input.last_time = st.lastTime
            /\ tx.input.call_data = getCalldata(st.user, st.currentState, SIG_PURE, arg)
            /\ transitionCount(state'[u]) = transitionCount(st) + 1
            /\ state'[u].callDataTree.elements = Append(st.callDataTree.elements, tx.input.call_data)
            /\ state'[u].currentState = newState
            /\ state'[u].lastTime = tx.logs[1].topic2
            /\ state'[u].lastTime = now /\ now > 0
            /\ isInOptimisticState(state'[u])]_vars

\* a second optimistic transition was committed on an already optimistic account
C17_Witness ==
  /\ last.op = "optimistic" /\ last.ok /\ ~last.entering
  /\ Len(txs) = 2
  /\ txs[1].sighash = SIG_HASHES.PerformOptimisticallyAndEnter
  /\ txs[2].sighash = SIG_HASHES.PerformOptimistically
  /\ txs[2].input.last_time = txs[1].logs[1].topic2
  /\ transitionCount(state[last.who]) = 2
  /\ state[last.who].lastTime = now

\* the handle was created and never initialized
Fresh(st) == st.callDataTree = NullTree /\ st.currentState = Null

\* C18: in every reachable state of an account handle the account is in
\* optimistic state exactly when its last time is not 0: isInOptimisticState is
\* false for a freshly created handle and after initialize() or normal(), and
\* true only after a successful optimistic commitment (optimistic, sendQueue)
\* or rollback, the last time then being the block time of the most recent
\* such commitment, the one the arbiter's account state holds.  (Violated: a
\* freshly created handle has last time null, which is not 0.)
C18_OptimisticIffLastTime ==
  \A u \in Operators :
    LET st == state[u]
    IN /\ Fresh(st) => ~isInOptimisticState(st)
       /\ (last.who = u /\ last.op \in {"initialize", "normal"} /\ last.ok) => ~isInOptimisticState(st)
       /\ isInOptimisticState(st) =>
            /\ st.lastTime \in 1 .. now
            /\ account_states[u] = hashPacked(TreeRoot(st.callDataTree), st.currentState, st.lastTime)
            /\ \E t \in 1 .. Len(txs) : HasOriLog(txs[t]) /\ txs[t].from = u
       /\ ~isInOptimisticState(st) => st.lastTime = 0

\* a freshly created handle reports being in optimistic state
C18_Witness ==
  \E u \in Operators :
    /\ Fresh(state[u]) /\ state[u].lastTime = Null
    /\ isInOptimisticState(state[u])
    /\ account_states[u] = ZERO_BYTES_32
    /\ last.op = "tick"

\* number of elements of a handle's tree (none before the tree exists)
Count(st) == IF st.callDataTree = NullTree THEN 0 ELSE Len(st.callDataTree.elements)

\* the step is a successful call of one of these operations on handle u
StepOf(u, ops) == last'.who = u /\ last'.op \in ops /\ last'.ok

Tracked(f) == getFraudster(fraudsters[f].parentORI, fraudsters[f].user) = f

\* the element of a handle's tree at a 0-based index
ElementAt(st, index) == st.callDataTree.elements[index + 1]

\* C20: for every tracked fraudster, right after it is recorded and after any
\* number of successful updates, 0 <= fraud index < number of elements of its
\* tree, and the element at the fraud index is the calldata blob of the
\* invalid transition: the first blob of the verified transaction that fails
\* the check when the fraudster is recorded, and the same element at the same
\* index after every later step.
C20_FraudIndexPointsAtInvalidBlob ==
  [][\A f \in 1 .. Len(fraudsters') :
       Tracked(f)' =>
         LET fr == fraudsters'[f]
         IN /\ fr.fraudIndex \in 0 .. Len(fr.callDataTree.elements) - 1
            /\ ElementAt(fr, fr.fraudIndex) # Undef
            /\ IF f <= Len(fraudsters)
               THEN /\ fr.fraudIndex = fraudsters[f].fraudIndex
                    /\ ElementAt(fr, fr.fraudIndex) = ElementAt(fraudsters[f], fr.fraudIndex)
                    /\ Len(fr.callDataTree.elements) >= Len(fraudsters[f].callDataTree.elements)
               ELSE /\ last'.op = "verifyTransaction" /\ ~last'.valid
                    /\ LET tx == txs[last'.tx]
                           i == FirstFailing(tx, last'.mode)
                       IN /\ i # Null /\ Fails(tx, i + 1, last'.mode)
                          /\ ElementAt(fr, fr.fraudIndex) = BlobsOf(tx)[i + 1]
                          /\ fr.fraudIndex = tx.ghost.size_before + i]_vars

\* a tracked fraudster recorded at an invalid transition has been updated
\* with a later transaction of the suspect
C20_Witness ==
  /\ last.op = "update" /\ last.ok
  /\ Tracked(last.f)
  /\ LET fr == fraudsters[last.f]
     IN /\ Len(fr.callDataTree.elements) > fr.fraudIndex + 1
        /\ \E t \in 1 .. Len(txs) :
             /\ HasOriLog(txs[t]) /\ t # last.tx
             /\ \E i \in 1 .. Len(BlobsOf(txs[t])) :
                  /\ ~TransitionHolds(txs[t], i)
                  /\ ElementAt(fr, fr.fraudIndex) = BlobsOf(txs[t])[i]

\* 1-based positions of the blobs of tx whose embedded user is not the suspect
ForeignAt(tx) == {i \in 1 .. Len(BlobsOf(tx)) : ~compareHex(suspectOf(tx), decodeFn(BlobsOf(tx)[i]).user)}

\* the last call verified transaction tx to the end, without an exception
Verified == last.op = "verifyTransaction" /\ last.ok

\* C21: the verifier returns false whenever the user embedded in the blob
\* differs from the suspect, in every mode and whatever a pure verifier or the
\* chain would compute, and so does the arbiter's verify_transition: a
\* verified transaction with such a blob is reported invalid, with the fraud
\* at or before that blob, and a fraudster is recorded for the suspect.
C21_ForeignUserIsFraud ==
  /\ \A blob \in AnyBlob, suspect \in Users, newState \in States, mode \in Modes :
       (Decodable(blob) /\ blob.user # suspect) =>
         /\ ~isValidTransition(toLowerCase(Checksum(suspect)), blob, newState, mode)
         /\ ~verify_transition(suspect, blob, newState)
  /\ (Verified /\ ForeignAt(txs[last.tx]) # {}) =>
       /\ ~last.valid
       /\ \A i \in ForeignAt(txs[last.tx]) : last.localIndex <= i - 1
       /\ getFraudster(last.who, last.user) \in 1 .. Len(fraudsters)

\* a blob naming another user, whose transition the pure verifier would
\* accept, has been verified with the pure verifier and reported as fraud
C21_Witness ==
  /\ Verified /\ last.mode = "pure" /\ ~last.valid
  /\ IsSingle(txs[last.tx])
  /\ ForeignAt(txs[last.tx]) = {1}
  /\ LET blob == txs[last.tx].input.call_data
     IN /\ blob.sighash \in pureVerifiers
        /\ some_pure_transition(blob.user, blob.current_state, blob.some_arg) = txs[last.tx].input.new_state
  /\ fraudsters[getFraudster(last.who, last.user)].user = suspectOf(txs[last.tx])

\* C22: the transition verifier never propagates an error: when the blob
\* cannot be decoded, when the chain call fails or when a pure verifier
\* throws, verification of the (single) transition ends with the verdict
\* invalid.  (Violated: the decoder's exception leaves the verifier.)
C22_VerifierNeverThrows ==
  (last.op = "verifyTransaction" /\ HasOriLog(txs[last.tx]) /\ IsSingle(txs[last.tx])) =>
    /\ last.ok
    /\ (last.mode = "error" \/ ~Decodable(txs[last.tx].input.call_data)) => ~last.valid

\* verification of a committed blob the decoder fails on has ended with an
\* exception: no verdict, no fraudster
C22_Witness ==
  /\ last.op = "verifyTransaction" /\ ~last.ok
  /\ HasOriLog(txs[last.tx]) /\ IsSingle(txs[last.tx])
  /\ ~Decodable(txs[last.tx].input.call_data)
  /\ ForeignAt(txs[last.tx]) = {}
  /\ fraudsters = <<>>

\* C23: verifyTransaction on a transaction whose receipt holds no log with a
\* new-optimistic-state(s) topic returns {valid: true} and records no
\* fraudster.  (Violated: the call ends with an exception.)
C23_NoLogIsValid ==
  [][(last'.op = "verifyTransaction" /\ ~HasOriLog(txs[last'.tx])) =>
       /\ last'.ok
       /\ last'.valid
       /\ UNCHANGED <<frauds, fraudsters>>]_vars

\* a pessimistic perform transaction has been handed to verifyTransaction,
\* which threw
C23_Witness ==
  /\ last.op = "verifyTransaction" /\ ~last.ok /\ ~last.sent
  /\ ~HasOriLog(txs[last.tx])
  /\ txs[last.tx].logs[1].topic0 = TOPICS.ORI_New_State
  /\ fraudsters = <<>>

\* C24: verifyTransaction dispatches by arbiter sighash: a transaction with
\* one of the two batch sighashes gets the verdict of batch verification, one
\* with one of the two single sighashes the verdict of single verification,
\* and one with any other sighash yields {valid: true} and records no
\* fraudster.  (Violated for any other sighash.)
C24_DispatchBySighash ==
  [][last'.op = "verifyTransaction" =>
       LET tx == txs[last'.tx]
       IN IF IsBatch(tx)
          THEN last'.ok /\ last'.valid = verifyBatchTransitions(suspectOf(tx), tx.input, last'.mode).valid
          ELSE IF IsSingle(tx)
          THEN last'.ok /\ last'.valid = verifyTransition(suspectOf(tx), tx.input, last'.mode).valid
          ELSE last'.ok /\ last'.valid /\ UNCHANGED <<frauds, fraudsters>>]_vars

\* after a single optimistic transaction got its verdict, a transaction with
\* another sighash made verifyTransaction throw
C24_Witness ==
  /\ last.op = "verifyTransaction" /\ ~last.ok
  /\ ~IsBatch(txs[last.tx]) /\ ~IsSingle(txs[last.tx])
  /\ txs[last.tx].sighash \notin {SIG_HASHES[k] : k \in DOMAIN SIG_HASHES}
  /\ \E t \in 1 .. Len(txs) : IsSingle(txs[t])

\* observer o holds a fraudster under the address, in the casing getFraudster looks up
Holds(o, user) == getFraudster(o, user) \in 1 .. Len(fraudsters)

\* C25: fraudsters are keyed by lower-cased suspect address and go from clean
\* to tracked to removed: getFraudster(u) returns a fraudster, the one of u,
\* only after a verification of u found a fraud, and after deleteFraudster(u)
\* or a successful fraud proof getFraudster(u) returns nothing for any
\* letter-casing of u.  (Violated by deleteFraudster with a checksummed u.)
C25_FraudsterLifecycle ==
  /\ \A o \in Observers, k \in AddrStrings :
       Holds(o, k) =>
         /\ compareHex(fraudsters[getFraudster(o, k)].user, k)
         /\ fraudsters[getFraudster(o, k)].parentORI = o
         /\ \E t \in 1 .. Len(txs) : HasOriLog(txs[t]) /\ compareHex(suspectOf(txs[t]), k)
  /\ (last.op = "deleteFraudster" /\ last.ok) =>
       \A k \in AddrStrings : compareHex(k, last.user) => ~Holds(last.who, k)
  /\ (last.op = "proveFraud" /\ last.ok) =>
       \A k \in AddrStrings : compareHex(k, Checksum(last.suspect)) => ~Holds(last.who, k)

\* a tracked fraudster was deleted by its checksummed address and is still returned
C25_Witness ==
  /\ last.op = "deleteFraudster" /\ last.ok
  /\ last.user = Checksum(last.user[1])
  /\ Holds(last.who, last.user)
  /\ Holds(last.who, toLowerCase(last.user))
  /\ frauds[last.who][last.user] = Null

\* the operations that read from and write to the chain
ChainOps == {"optimistic", "normal", "sendQueue", "rollback", "proveFraud", "initialize"}

\* C27: when an operation (optimistic, normal, sendQueue, rollback,
\* proveFraud, initialize) fails, before sending, by a rejected chain write,
\* or on an unexpected event after the write, no local state is advanced:
\* trees, current states, last times, fraud indices, queues and fraud maps of
\* all handles are exactly as before the call; and unless the write was
\* mined the chain is as before, too.
C27_FailureLeavesLocalState ==
  [][(last'.op \in ChainOps /\ ~last'.ok) =>
       /\ UNCHANGED <<state, queue, frauds, fraudsters>>
       /\ "mined" \notin DOMAIN last' => UNCHANGED chainVars]_vars

\* the arbiter has rejected the write of an operator that holds a non-empty
\* tree and a handle state to lose
C27_Witness ==
  /\ last.op \in ChainOps /\ ~last.ok /\ last.sent
  /\ last.who \in Operators
  /\ state[last.who].callDataTree # NullTree
  /\ Len(state[last.who].callDataTree.elements) > 0
  /\ accountState(state[last.who]) = account_states[last.who]

FraudsterOps == {"update", "lock", "proveFraud"}
OwnAccountOps == {"bond", "initialize", "normal", "optimistic", "queue", "clearQueue", "sendQueue", "rollback"}

C29_LastTimeStrictlyGrows ==
  [][/\ \A u \in Operators :
          (/\ state[u].lastTime > 0 /\ state'[u].lastTime > 0
           /\ state'[u].callDataTree # state[u].callDataTree) =>
            state'[u].lastTime > state[u].lastTime
     /\ \A f \in 1 .. Len(fraudsters) :
          fraudsters'[f].callDataTree # fraudsters[f].callDataTree =>
            fraudsters'[f].lastTime > fraudsters[f].lastTime]_vars

\* C29 (amended): whenever an optimistic update is applied to a handle that
\* was already optimistic, the new last time is the block time of the update
\* (of the mined commitment or rollback; of the observed transaction for a
\* fraudster) and is never less than the previous last time.
C29_LastTimeNeverDecreases ==
  [][/\ \A u \in Operators :
          (/\ state[u].lastTime > 0 /\ state'[u].lastTime > 0
           /\ state'[u].callDataTree # state[u].callDataTree) =>
            /\ state'[u].lastTime = now
            /\ state'[u].lastTime >= state[u].lastTime
     /\ \A f \in 1 .. Len(fraudsters) :
          fraudsters'[f].callDataTree # fraudsters[f].callDataTree =>
            /\ last'.op = "update" /\ last'.f = f
            /\ fraudsters'[f].lastTime = lastTimeOf(txs[last'.tx])
            /\ fraudsters'[f].lastTime >= fraudsters[f].lastTime]_vars

\* a second commitment has been mined at the block time of the first: the
\* handle's last time is the time the commitment was built on
C29_Witness ==
  /\ last.op = "optimistic" /\ last.ok /\ ~last.entering
  /\ txs[Len(txs)].from = last.who
  /\ txs[Len(txs)].input.last_time = state[last.who].lastTime
  /\ txs[Len(txs)].logs[1].topic2 = state[last.who].lastTime
  /\ Len(state[last.who].callDataTree.elements) = 2

\* the calldata element at 0-based index i of the tree the arbiter's account
\* state of `user` commits to, and the state the transition at i has to reach
CommittedAt(user, i) == account_states[user][1][i + 1]
CommittedAfter(user, i) ==
  IF i + 2 <= Len(account_states[user][1]) THEN account_states[user][1][i + 2].current_state
  ELSE account_states[user][2]

\* C30 as stated: on the arbiter prove_fraud succeeds only when called by the
\* account that locked the suspect and only for a committed transition that
\* is invalid; on success the suspect's entire bonded balance is moved to the
\* accuser, the accuser is unlocked, the suspect becomes locked by itself with
\* lock time 0, and the suspect's rollback size is the index of the
\* fraudulent transition.
C30_ProveFraudOnArbiter ==
  [][(last'.op = "proveFraud" /\ last'.ok) =>
       LET accuser == last'.accuser
           suspect == last'.suspect
           i == last'.transition_index
       IN /\ lockers[suspect] = accuser
          /\ i + 1 <= Len(account_states[suspect][1])
          /\ ~verify_transition(suspect, CommittedAt(suspect, i), CommittedAfter(suspect, i))
          /\ balances'[suspect] = 0
          /\ balances'[accuser] = balances[accuser] + balances[suspect]
          /\ lockers'[accuser] = ZERO_ADDRESS /\ locked_times'[accuser] = 0
          /\ lockers'[suspect] = suspect /\ locked_times'[suspect] = 0
          /\ rollback_sizes'[suspect] = i]_vars

\* C30 amended: prove_fraud succeeds only for the locker of the suspect and
\* only for a committed invalid transition; on success the suspect is locked
\* by itself with lock time 0 and its rollback size is the index of the
\* transition; an accuser other than the suspect receives the suspect's whole
\* bond and is unlocked, while a suspect that proves its own fraud keeps its
\* bond and stays locked by itself.
C30_ProveFraudSettlement ==
  [][(last'.op = "proveFraud" /\ last'.ok) =>
       LET accuser == last'.accuser
           suspect == last'.suspect
           i == last'.transition_index
       IN /\ lockers[suspect] = accuser
          /\ i + 1 <= Len(account_states[suspect][1])
          /\ ~verify_transition(suspect, CommittedAt(suspect, i), CommittedAfter(suspect, i))
          /\ lockers'[suspect] = suspect /\ locked_times'[suspect] = 0
          /\ rollback_sizes'[suspect] = i
          /\ account_states' = account_states
          /\ IF accuser = suspect
             THEN balances' = balances
             ELSE /\ balances'[suspect] = 0
                  /\ balances'[accuser] = balances[accuser] + balances[suspect]
                  /\ lockers'[accuser] = ZERO_ADDRESS /\ locked_times'[accuser] = 0]_vars

\* an accuser has taken the bond of another account whose fraud it proved
C30_Witness ==
  /\ last.op = "proveFraud" /\ last.ok
  /\ last.accuser # last.suspect
  /\ balances[last.suspect] = 0
  /\ balances[last.accuser] > MIN_DEPOSIT
  /\ lockers[last.accuser] = ZERO_ADDRESS
  /\ lockers[last.suspect] = last.suspect
  /\ rollback_sizes[last.suspect] = last.transition_index

\* fraud has been proven against `user` and its lock has not been lifted:
\* only prove_fraud leaves an account locked by itself with lock time 0
Convicted(user) == lockers[user] = user /\ locked_times[user] = 0

\* the arbiter functions by which an account commits a transition, exits
\* optimism or takes its bond out
CommitFns ==
  {"perform", "perform_and_exit", "perform_optimistically_and_enter", "perform_optimistically",
   "perform_many_optimistically_and_enter", "perform_many_optimistically", "unbond"}

\* the step is the rollback by which `user` reaches the size the arbiter asked for
CompletedRollback(user) ==
  /\ last'.op = "rollback" /\ last'.who = user /\ last'.ok
  /\ last'.tree_size = rollback_sizes[user]
  /\ Len(RootOf(user)') = rollback_sizes[user]
  /\ lockers'[user] = ZERO_ADDRESS /\ rollback_sizes'[user] = 0

\* C31: after fraud has been proven against a suspect, at any transition index
\* including 0, the suspect cannot commit a pessimistic or optimistic
\* transition, exit optimism or unbond until it has rolled its tree back to
\* the fraud index; only a completed rollback unlocks it and clears the
\* rollback size.
C31_LockedUntilRollback ==
  [][\A u \in Users : Convicted(u) =>
       /\ ~(last'.who = u /\ last'.op \in CommitFns /\ last'.ok)
       /\ ~Convicted(u)' => CompletedRollback(u)
       /\ rollback_sizes'[u] # rollback_sizes[u] => CompletedRollback(u)]_vars

\* a suspect whose first transition was proven fraudulent is unlocked with its
\* tree still holding that transition
C31_Witness ==
  /\ last.op = "unlock" /\ last.ok /\ last.suspect = "s" /\ last.accuser = "s"
  /\ lockers["s"] = ZERO_ADDRESS
  /\ Len(RootOf("s")) > 0
  /\ ~verify_transition("s", CommittedAt("s", 0), CommittedAfter("s", 0))


\* the step releases `u` from its lock once lock_time has elapsed since the
\* lock, refreshing the last time of its account state
Released(u) ==
  /\ last'.op = "unlock" /\ last'.ok /\ last'.suspect = u
  /\ locked_times[u] + lock_time <= now
  /\ lockers'[u] = ZERO_ADDRESS
  /\ account_states'[u] = hashPacked(RootOf(u), StateOf(u), now)

\* the step is a lock_user that found both accounts unlocked and locks both
\* with the current block time
LocksBoth ==
  /\ not_locked(last'.who) /\ not_locked(last'.suspect)
  /\ lockers'[last'.suspect] = last'.who /\ lockers'[last'.who] = last'.who
  /\ locked_times'[last'.suspect] = now /\ locked_times'[last'.who] = now

\* C32 as stated: on the arbiter lock succeeds only if neither the accuser nor
\* the suspect is locked, and then locks both with the current block time;
\* while an account is locked and no fraud has been proven against it, its
\* stored account state does not change until the lock is released after
\* lock_time has elapsed.
C32_LockFreezesAccountState ==
  [][/\ (last'.op = "lock_user" /\ last'.ok) => LocksBoth
     /\ \A u \in Users :
          (is_locked(u) /\ ~Convicted(u) /\ account_states'[u] # account_states[u]) => Released(u)]_vars

\* C32 amended: lock succeeds only if neither account is locked and locks
\* both with the current block time; while an initialized account is locked
\* and no fraud has been proven against it, its stored account state does not
\* change until the lock is released after lock_time has elapsed; an account
\* locked before it was initialized can still be initialized.
C32_LockFreezesInitializedAccount ==
  [][/\ (last'.op = "lock_user" /\ last'.ok) => LocksBoth
     /\ \A u \in Users :
          (is_locked(u) /\ ~Convicted(u) /\ account_states'[u] # account_states[u]) =>
            IF Initialized(u) THEN Released(u)
            ELSE last'.op = "initialize" /\ last'.ok /\ last'.who = u]_vars

\* the suspect, locked by an accuser, has just had a transition rejected
C32_Witness ==
  /\ lockers["s"] = "a" /\ lockers["a"] = "a"
  /\ locked_times["s"] = locked_times["a"] /\ locked_times["s"] > 0
  /\ Initialized("s") /\ Len(RootOf("s")) > 0
  /\ last.who = "s" /\ ~last.ok
  /\ last.op \in {"perform_optimistically", "perform_many_optimistically", "perform_and_exit"}

\* the sum of all users' bonded balances
RECURSIVE SumOver(_, _)
SumOver(f, S) == IF S = {} THEN 0 ELSE LET x == CHOOSE y \in S : TRUE IN f[x] + SumOver(f, S \ {x})
TotalBonded == SumOver(balances, Users)

\* C33: in every reachable state the ETH held by the arbiter equals the sum of
\* all users' bonded balances: bond, lock and rollback add exactly the value
\* sent, initialize adds only the bond part and forwards the rest to the logic
\* contract, unbond removes the caller's whole balance, prove_fraud and unlock
\* only move balance between accounts, and nothing else moves ETH.
C33_ArbiterHoldsTheBonds ==
  /\ [](arbiter_eth = TotalBonded)
  /\ [][IF ~last'.ok THEN arbiter_eth' = arbiter_eth /\ balances' = balances
        ELSE IF last'.op \in {"bond", "lock_user", "rollback"} THEN arbiter_eth' = arbiter_eth + last'.value
        ELSE IF last'.op = "initialize"
             THEN /\ arbiter_eth' = arbiter_eth + last'.bond_amount
                  /\ last'.value - last'.bond_amount >= MIN_DEPOSIT
        ELSE IF last'.op = "unbond"
             THEN /\ balances'[last'.who] = 0
                  /\ arbiter_eth' = arbiter_eth - balances[last'.who]
        ELSE IF last'.op \in {"prove_fraud", "unlock"}
             THEN arbiter_eth' = arbiter_eth /\ TotalBonded' = TotalBonded
        ELSE arbiter_eth' = arbiter_eth /\ balances' = balances]_vars

\* the accuser has taken its bond and the suspect's out of the arbiter, and
\* the suspect has bonded again with its rollback
C33_Witness ==
  /\ last.op = "rollback" /\ last.ok /\ last.value = min_bond
  /\ balances["a"] = 0 /\ balances["s"] = min_bond
  /\ arbiter_eth = min_bond
  /\ lockers["s"] = ZERO_ADDRESS

\* C34: for any estimator, monotonic or not, whenever the batcher selects a
\* non-empty prefix, the estimate of exactly that prefix does not exceed the
\* gas ceiling, and the prefix is no longer than the longest one that fits.
C34_SelectedPrefixFits ==
  (last.op = "sendQueue" /\ "index" \in DOMAIN last /\ last.index >= 0) =>
    /\ last.index + 1 <= last.n
    /\ last.estimator[last.index + 1] <= last.gas
    /\ \E m \in (last.index + 1) .. last.n :
         /\ last.estimator[m] <= last.gas
         /\ \A k \in (m + 1) .. last.n : last.estimator[k] > last.gas

\* with an estimator that is not monotonic the batcher has selected a prefix
\* within the ceiling although a longer prefix fits as well
C34_Witness ==
  /\ last.op = "sendQueue" /\ "index" \in DOMAIN last /\ last.sent
  /\ ~Monotone(last.estimator)
  /\ last.index >= 0
  /\ last.estimator[last.index + 1] <= last.gas
  /\ \E m \in (last.index + 2) .. last.n : last.estimator[m] <= last.gas

\* C35: for a tracked suspect the fraud index denotes the first invalid
\* transition among the suspect's verified transactions: a verification that
\* finds a fraud of an already tracked suspect leaves the tracked fraudster,
\* with the updates it has accumulated, in place.
C35_FirstFraudStaysTracked ==
  [][\A o \in Observers, k \in AddrStrings :
       (Holds(o, k) /\ last'.op = "verifyTransaction" /\ last'.who = o) =>
         /\ getFraudster(o, k)' = getFraudster(o, k)
         /\ fraudsters'[getFraudster(o, k)] = fraudsters[getFraudster(o, k)]]_vars

\* the handle an owner tracked for a suspect has been replaced by a handle
\* for a later fraud of the same suspect
C35_Witness ==
  /\ last.op = "verifyTransaction" /\ last.ok /\ ~last.valid
  /\ Len(fraudsters) = 2
  /\ fraudsters[1].parentORI = fraudsters[2].parentORI
  /\ fraudsters[1].user = fraudsters[2].user
  /\ getFraudster(last.who, fraudsters[2].user) = 2
  /\ fraudsters[1].fraudIndex # Null
  /\ fraudsters[2].fraudIndex > fraudsters[1].fraudIndex

\* the time left until the lock window of `user` ends
WindowLeft(user) ==
  IF locked_times[user] + lock_time - now > 0 THEN locked_times[user] + lock_time - now ELSE 0

\* C36: getLockTimeRemaining(user) returns max(0, lock_timestamp + lock_time -
\* now), the time remaining until the lock window of the account ends:
\* positive while the window is open and 0 once it has elapsed.
C36_LockTimeRemaining ==
  \A u \in Users :
    /\ getLockTimeRemaining(Checksum(u)).ok
    /\ getLockTimeRemaining(Checksum(u)).value = WindowLeft(u)
    /\ timeRemainingAt(now, locked_times[u]) = WindowLeft(u)

\* the suspect has just been locked and its lock window is open: the query
\* throws, and its arithmetic would report 0
C36_Witness ==
  /\ last.op = "lock" /\ last.ok
  /\ lockers["s"] = "a"
  /\ WindowLeft("s") > 0
  /\ ~getLockTimeRemaining(Checksum("s")).ok
  /\ timeRemainingAt(now, locked_times["s"]) = 0

\* C37: every batch sendQueue submits to the arbiter holds at least 2
\* calldata blobs, so that the arbiter's sufficient_calldata precondition is
\* met for every prefix the batcher can select.
C37_BatchHasTwoBlobs ==
  (last.op = "sendQueue" /\ last.sent) =>
    /\ last.index + 1 >= 2
    /\ last.ok => sufficient_calldata(BlobsOf(txs[Len(txs)]))

\* of a queue of at least two items the batcher selected the first alone: the
\* one-blob batch was submitted and the arbiter rejected it
C37_Witness ==
  /\ last.op = "sendQueue" /\ last.sent /\ ~last.ok
  /\ last.n >= 2 /\ last.index = 0
  /\ last.estimator[1] <= last.gas
  /\ Len(queue[last.who]) = last.n

\* a 0-based index is an element position of the handle's tree
IsPosition(st, index) == index # Null /\ index >= 0 /\ index < Count(st)

\* C38: whenever proveFraud builds its proof for a tracked fraudster, both
\* requested indices, the fraud index and the one after it, are element
\* positions of the fraudster's tree, so the proof is constructed and sent for
\* every recorded fraud, also when the invalid transition is the last element
\* committed.
C38_ProofIndicesExist ==
  [][(last'.op = "proveFraud" /\ fraudsters[last'.f].fraudIndex # Null) =>
       LET st == fraudsters[last'.f]
       IN /\ proofIndices(st) = <<st.fraudIndex, st.fraudIndex + 1>>
          /\ IsPosition(st, proofIndices(st)[1])
          /\ IsPosition(st, proofIndices(st)[2])
          /\ last'.sent]_vars

\* a fraudster whose invalid transition is the last element of its tree: the
\* proof asks for the position after it and ends before anything is sent,
\* although the arbiter holds exactly this tree with the invalid transition
C38_Witness ==
  /\ last.op = "proveFraud" /\ ~last.ok /\ ~last.sent
  /\ LET st == fraudsters[last.f]
     IN /\ Tracked(last.f)
        /\ IsPosition(st, st.fraudIndex)
        /\ st.fraudIndex + 1 = Count(st)
        /\ accountState(st) = account_states[st.user[1]]
        /\ lockers[st.user[1]] = st.parentORI

\* C39: in every batch sendQueue gets mined, blob 0 embeds the handle's
\* current state, blob i > 0 embeds the predicted new state of queued item
\* i-1, and the declared new state is the predicted new state of the last
\* submitted item; a successful flush, full or partial, leaves queuedState
\* unchanged, and the first blob of the batch built next embeds the handle's
\* new current state.
C39_BatchChainsStates ==
  [][\A u \in Operators : (last'.op = "sendQueue" /\ last'.ok /\ last'.who = u) =>
       LET tx == txs'[Len(txs')]
           blobs == BlobsOf(tx)
           k == Len(blobs)
       IN /\ k = last'.index + 1 /\ k <= Len(queue[u])
          /\ slice_36_68(blobs[1]) = state[u].currentState
          /\ \A i \in 2 .. k : slice_36_68(blobs[i]) = queue[u][i - 1].newState
          /\ tx.input.new_state = queue[u][k].newState
          /\ queuedState(u)' = queuedState(u)
          /\ state'[u].currentState = tx.input.new_state
          /\ queue'[u] # <<>> => slice_36_68(batchCallData(u)'[1]) = tx.input.new_state]_vars

\* a partial flush of three items: the second blob of the mined batch embeds
\* the state the first item predicted, and the batch the item left queued
\* would build starts from the state the mined batch declared
C39_Witness ==
  /\ last.op = "sendQueue" /\ last.ok /\ last.n = 3 /\ last.index = 1
  /\ LET blobs == BlobsOf(txs[Len(txs)])
     IN /\ slice_36_68(blobs[2]) # slice_36_68(blobs[1])
        /\ txs[Len(txs)].input.new_state # slice_36_68(blobs[2])
  /\ Len(queue[last.who]) = 1
  /\ slice_36_68(batchCallData(last.who)[1]) = txs[Len(txs)].input.new_state
  /\ queuedState(last.who) # state[last.who].currentState

\* ------------------------------------ an observer and one suspect's history
\* The suspect commits optimistic transactions to the arbiter one after the
\* other, each accepted on the account state the one before it left; the
\* observer verifies them and updates the fraudster handle it got, in any order.
MaxHistory == 3
Suspects == {"s"}

\* the tree and time the account of the mined history is at
HistoryTree == IF txs = <<>> THEN <<>> ELSE PriorRoot(txs[Len(txs)]) \o BlobsOf(txs[Len(txs)])
HistoryTime == IF txs = <<>> THEN 0 ELSE lastTimeOf(txs[Len(txs)])

\* optimistic_perform / optimistic_perform_many of the arbiter, called by u
\* with a transaction built on the account's tree and last time: accepted if
\* the first blob's state completes the stored account state
MinedNext(u, blobs, newState) ==
  LET entering == txs = <<>>
      tx == FeedTx(u, entering, blobs, newState, HistoryTree, HistoryTime)
  IN /\ Len(txs) < MaxHistory
     /\ hashPacked(PriorRoot(tx), slice_36_68(blobs[1]), PriorTime(tx)) = account_states[u]
     /\ account_states' = [account_states EXCEPT ![u] = tx.ghost.account_state]
     /\ Mined(tx)
     /\ last' = [op |-> "mined", who |-> u, ok |-> TRUE, sent |-> TRUE]
     /\ UNCHANGED <<balances, arbiter_eth, lockers, locked_times, rollback_sizes, now, localVars>>

NextHistory ==
  \/ Tick
  \/ \E u \in Suspects : Bond(u)
  \/ \E u \in Suspects : Initialize(u, MIN_DEPOSIT)
  \/ \E u \in Suspects : \E blobs \in FeedBlobs(u) :
       \E newState \in Predicted(u, blobs[Len(blobs)].current_state, blobs[Len(blobs)].some_arg) :
         MinedNext(u, blobs, newState)
  \/ \E o \in Observers, t \in 1 .. Len(txs) : verifyTransaction(o, t, "node")
  \/ \E f \in 1 .. Len(fraudsters), t \in 1 .. Len(txs) : update(f, t)

SpecHistory == Init /\ [][NextHistory]_vars

\* the handle state st is what the suspect's account was after its j-th transaction
Reflects(st, j) ==
  /\ compareHex(Checksum(txs[j].from), st.user)
  /\ accountState(st) = txs[j].ghost.account_state

\* C40: a fraudster is advanced along the suspect's history in order only: if
\* the fraudster reflects the account after the suspect's j-th transaction,
\* update with any transaction but the (j+1)-th (one already applied, an
\* earlier one, or one that skips a transaction) fails and leaves the
\* fraudster, and everything else, unchanged.
C40_UpdateFollowsHistory ==
  [][\A f \in 1 .. Len(fraudsters), t \in 1 .. Len(txs) :
       update(f, t) =>
         /\ \E j \in 1 .. Len(txs) : Reflects(fraudsters[f], j)
         /\ \A j \in 1 .. Len(txs) :
              (Reflects(fraudsters[f], j) /\ t # j + 1) =>
                /\ ~last'.ok
                /\ fraudsters' = fraudsters
                /\ UNCHANGED <<chainVars, state, queue, frauds>>]_vars

\* the fraudster got from the suspect's first transaction was offered the
\* third while the second had not been applied, and refused it
C40_Witness ==
  /\ last.op = "update" /\ ~last.ok
  /\ Len(txs) = 3 /\ last.tx = 3
  /\ Reflects(fraudsters[last.f], 1)
  /\ updateResult(fraudsters[last.f], txs[2]).ok

====
